---------------------------- MODULE Spec2Model ----------------------------
(***************************************************************************)
(* A model of the ICA offers scraper (grocery_scraper).                    *)
(*                                                                         *)
(* Texts are sequences of one-character strings.  float64 prices are       *)
(* modelled as exact non-negative rationals [n |-> numerator,              *)
(* d |-> denominator] in lowest terms: every price the code computes is a  *)
(* short decimal, its division by 100, or the mean of two of those.        *)
(***************************************************************************)
EXTENDS Integers, Sequences, FiniteSets, TLC

(***************************************************************************)
(* Bounds of the model.                                                    *)
(***************************************************************************)
\* Longest text enumerated exhaustively over PriceAlphabet.
MaxLen == 4

\* Longest deal text enumerated exhaustively over DealAlphabet.
MaxDealLen == 5
\* Longest list of raw promotions handed to the transformation loop.
MaxDeals == 2
\* Largest price and percentage handed to calculateDiscount directly.
MaxPrice == 100
\* Largest multi-buy quantity handed to calculateDiscount directly.
MaxQty == 3
\* Most children the page renders into the parent of its offer cards.
MaxChildren == 3
\* Number of configured target stores.
NumStores == 2

\* The largest number of InsertOffers calls of one run of the repository.
MaxCalls == 2
\* The latest instant of the clock; instant 0 is the zero time.Time.
MaxNow == 2

\* The largest number of elements of a parsed document.
MaxCards == 2

VARIABLES
    priceString, priceOut, pricePc,       \* one call of parsePrice
    calcOffer, calcOut, calcPc,           \* one call of calculateDiscount
    svcStore, fetchErr, parseErr, rawDeals, svcOffers, svcErr, svcPc,
                                          \* one call of GetStoreOffers
    dom, listLengthAttr, listLengthStr, listLength, wsPc, wsErr,
                                          \* one call of ICAOfferWaitStrategy
    variant, scrapeOk, insertOk, hasOffers, taskPc, gCtxDone, firstErr,
    inserted, mainPc, reported,           \* one run of the scraper's main
    table, tableBefore, now, offersArg, fromScrape, rowsAffected,
    repoErr, apiOut, apiErr, repoCalls, repoPc,
                                          \* the offers table and its callers
    htmlDoc, readErr, rawOffers, extractErr, extractPc,
                                          \* one call of ParseRawOffers
    fetchPc, deadlinePassed, fullHTML, readerReturned, fetchRetErr,
                                          \* one call of FetchRenderedContent
    callPc, callErr, sessCtxDone, held, live, uses, created
                                          \* the browser sessions of concurrent calls

priceVars == <<priceString, priceOut, pricePc>>
calcVars == <<calcOffer, calcOut, calcPc>>
svcVars == <<svcStore, fetchErr, parseErr, rawDeals, svcOffers, svcErr, svcPc>>
waitVars == <<dom, listLengthAttr, listLengthStr, listLength, wsPc, wsErr>>
mainVars == <<variant, scrapeOk, insertOk, hasOffers, taskPc, gCtxDone, firstErr,
              inserted, mainPc, reported>>
repoVars == <<table, tableBefore, now, offersArg, fromScrape, rowsAffected,
              repoErr, apiOut, apiErr, repoCalls, repoPc>>
parseVars == <<htmlDoc, readErr, rawOffers, extractErr, extractPc>>
fetchVars == <<fetchPc, deadlinePassed, fullHTML, readerReturned, fetchRetErr>>
sessVars == <<callPc, callErr, sessCtxDone, held, live, uses, created>>
vars == <<priceVars, calcVars, svcVars, waitVars, mainVars, repoVars, parseVars,
          fetchVars, sessVars>>

(***************************************************************************)
(* Characters and strings.                                                 *)
(***************************************************************************)
Digits == {"0", "1", "2", "3", "4", "5", "6", "7", "8", "9"}

DigitVal(c) ==
    CASE c = "0" -> 0 [] c = "1" -> 1 [] c = "2" -> 2 [] c = "3" -> 3
      [] c = "4" -> 4 [] c = "5" -> 5 [] c = "6" -> 6 [] c = "7" -> 7
      [] c = "8" -> 8 [] c = "9" -> 9

\* \d of Go's regexp (RE2): ASCII digits only.
IsDigit(c) == c \in Digits

\* \s of Go's regexp (RE2): [\t\n\f\r ].
IsSpace(c) == c \in {" ", "\t", "\n", "\r", "\f"}

\* strings.Contains(s, c) for a one-character c.
Contains(s, c) == \E i \in 1..Len(s) : s[i] = c

\* strings.ReplaceAll(s, from, to) for one-character from and to.
ReplaceAll(s, from, to) ==
    [i \in 1..Len(s) |-> IF s[i] = from THEN to ELSE s[i]]

(***************************************************************************)
(* Rationals.                                                              *)
(***************************************************************************)
RECURSIVE GCD(_, _)
GCD(a, b) == IF b = 0 THEN a ELSE GCD(b, a % b)

Abs(x) == IF x < 0 THEN -x ELSE x

\* n/d in lowest terms, d > 0.
Rat(n, d) ==
    LET g == GCD(Abs(n), d)
    IN  [n |-> n \div g, d |-> d \div g]

Zero == Rat(0, 1)

RatAdd(a, b) == Rat(a.n * b.d + b.n * a.d, a.d * b.d)
RatDivInt(a, k) == Rat(a.n, a.d * k)
RatGt(a, b) == a.n * b.d > b.n * a.d

RECURSIVE Pow10(_)
Pow10(k) == IF k = 0 THEN 1 ELSE 10 * Pow10(k - 1)

(***************************************************************************)
(* internal/service/offer.go: the price parser.                            *)
(***************************************************************************)
\* The decimal number written by a string of digits.
RECURSIVE DigitsValue(_)
DigitsValue(s) ==
    IF s = <<>> THEN 0
    ELSE 10 * DigitsValue(SubSeq(s, 1, Len(s) - 1)) + DigitVal(s[Len(s)])

\* strconv.ParseFloat(s, 64) on the strings cleanAndParse can hand it: digits,
\* '.' and whitespace other than ' '.  Go accepts digits with at most one '.'
\* and at least one digit; everything else is a syntax error.
ParseFloat(s) ==
    LET dots == {i \in 1..Len(s) : s[i] = "."}
        wellFormed == /\ \A i \in 1..Len(s) : IsDigit(s[i]) \/ s[i] = "."
                      /\ Cardinality(dots) <= 1
                      /\ \E i \in 1..Len(s) : IsDigit(s[i])
        dot == IF dots = {} THEN Len(s) + 1 ELSE CHOOSE i \in dots : TRUE
        digs == SelectSeq(s, IsDigit)
    IN  IF wellFormed
        THEN [err |-> FALSE, val |-> Rat(DigitsValue(digs), Pow10(Len(s) - dot + (IF dots = {} THEN 1 ELSE 0)))]
        ELSE [err |-> TRUE, val |-> Zero]

\* Lines 59-63 of cleanAndParse: ':' and ',' become '.', every character that
\* is not a digit, '.' or whitespace is stripped, then ' ' is removed.
CleanStr(priceStr) ==
    LET a == ReplaceAll(priceStr, ":", ".")
        b == ReplaceAll(a, ",", ".")
        keep(c) == IsDigit(c) \/ c = "." \/ IsSpace(c)
        c == SelectSeq(b, keep)
        notBlank(ch) == ch # " "
    IN  SelectSeq(c, notBlank)

\* A mutant of cleanAndParse: the magnitude fix fires from 1000 on.
cleanAndParse_ge(priceStr) ==
    LET r == ParseFloat(CleanStr(priceStr))
    IN  IF r.err THEN Zero
        ELSE IF ~RatGt(Rat(1000, 1), r.val) /\ ~Contains(priceStr, ":")
             THEN RatDivInt(r.val, 100)
             ELSE r.val

\* A mutant of cleanAndParse: a failed parse returns the sentinel -1.
cleanAndParse_sentinel(priceStr) ==
    LET r == ParseFloat(CleanStr(priceStr))
    IN  IF r.err THEN Rat(-1, 1)
        ELSE IF RatGt(r.val, Rat(1000, 1)) /\ ~Contains(priceStr, ":")
             THEN RatDivInt(r.val, 100)
             ELSE r.val

cleanAndParse(priceStr) ==
    LET r == ParseFloat(CleanStr(priceStr))
    IN  IF r.err THEN Zero
        ELSE IF RatGt(r.val, Rat(1000, 1)) /\ ~Contains(priceStr, ":")
             THEN RatDivInt(r.val, 100)
             ELSE r.val

\* The character classes of the regular expressions of offer.go.
InClass(cls, c) ==
    CASE cls = "digit" -> IsDigit(c)                                \* \d
      [] cls = "space" -> IsSpace(c)                                \* \s
      [] cls = "range" -> IsDigit(c) \/ c \in {":", ",", "."}       \* [\d:,\.]
      [] cls = "total" -> IsDigit(c) \/ IsSpace(c) \/ c \in {":", ",", "."}  \* [\d\s:,\.]
      [] cls = "orig"  -> IsDigit(c) \/ c \in {":", ",", "-"}       \* [\d:,-]

\* [\d:,\.] of reRange.
InRange(c) == InClass("range", c)

\* The end of the longest run of characters of class cls that starts at i
\* (i - 1 when s[i] is not of the class): a greedy cls*.
RECURSIVE RunEnd(_, _, _)
RunEnd(s, i, cls) ==
    IF i <= Len(s) /\ InClass(cls, s[i]) THEN RunEnd(s, i + 1, cls) ELSE i - 1

\* reRange.FindAllString(s, n) from position i on: the first n leftmost,
\* longest, non-overlapping matches of [\d:,\.]+.
RECURSIVE FindAllRange(_, _, _)
FindAllRange(s, i, n) ==
    IF n = 0 \/ i > Len(s) THEN <<>>
    ELSE IF InRange(s[i])
         THEN LET e == RunEnd(s, i, "range")
              IN  <<SubSeq(s, i, e)>> \o FindAllRange(s, e + 1, n - 1)
         ELSE FindAllRange(s, i + 1, n)

\* A mutant of parsePrice: a range yields its lower end instead of the mean.
parsePrice_min(priceString_) ==
    IF priceString_ = <<>> THEN Zero
    ELSE LET matches == IF Contains(priceString_, "-")
                        THEN FindAllRange(priceString_, 1, 2) ELSE <<>>
             priceMin == cleanAndParse(matches[1])
             priceMax == cleanAndParse(matches[2])
         IN  IF Len(matches) = 2 /\ RatGt(priceMin, Zero) /\ RatGt(priceMax, Zero)
             THEN priceMin
             ELSE cleanAndParse(priceString_)

\* A mutant of parsePrice: the magnitude fix of an endpoint is judged by the
\* whole text, not by the endpoint's own substring.
parsePrice_wholeTextFix(priceString_) ==
    IF priceString_ = <<>> THEN Zero
    ELSE LET matches == IF Contains(priceString_, "-")
                        THEN FindAllRange(priceString_, 1, 2) ELSE <<>>
             endpoint(m) ==
                 LET r == ParseFloat(CleanStr(m))
                 IN  IF r.err THEN Zero
                     ELSE IF RatGt(r.val, Rat(1000, 1)) /\ ~Contains(priceString_, ":")
                          THEN RatDivInt(r.val, 100)
                          ELSE r.val
             priceMin == endpoint(matches[1])
             priceMax == endpoint(matches[2])
         IN  IF Len(matches) = 2 /\ RatGt(priceMin, Zero) /\ RatGt(priceMax, Zero)
             THEN RatDivInt(RatAdd(priceMin, priceMax), 2)
             ELSE cleanAndParse(priceString_)

parsePrice(priceString_) ==
    IF priceString_ = <<>> THEN Zero
    ELSE LET matches == IF Contains(priceString_, "-")
                        THEN FindAllRange(priceString_, 1, 2) ELSE <<>>
             priceMin == cleanAndParse(matches[1])
             priceMax == cleanAndParse(matches[2])
         IN  IF Len(matches) = 2 /\ RatGt(priceMin, Zero) /\ RatGt(priceMax, Zero)
             THEN RatDivInt(RatAdd(priceMin, priceMax), 2)
             ELSE cleanAndParse(priceString_)

(***************************************************************************)
(* internal/service/offer.go: the regular expressions.  A match is the     *)
(* sequence <<whole match, group 1, ...>>, and <<>> when nothing matches,  *)
(* as FindStringSubmatch returns it.  Go's regexp is leftmost-first: the   *)
(* match a backtracking engine finds first.                                *)
(***************************************************************************)
Min(S) == CHOOSE x \in S : \A y \in S : x <= y

\* Whether the characters of lit stand in s from position i on.
LitAt(s, i, lit) ==
    /\ i + Len(lit) - 1 <= Len(s)
    /\ \A k \in 1..Len(lit) : s[i + k - 1] = lit[k]

\* percentageRegex: (\d+)%
percentageMatch(s) ==
    LET starts == {i \in 1..Len(s) :
                      /\ IsDigit(s[i])
                      /\ LitAt(s, RunEnd(s, i, "digit") + 1, <<"%">>)}
    IN  IF starts = {} THEN <<>>
        ELSE LET i == Min(starts)
                 e == RunEnd(s, i, "digit")
             IN  <<SubSeq(s, i, e + 1), SubSeq(s, i, e)>>

\* Where group 2 of multibuyRegex lies when the match starts at digit i:
\* <<first, last>>, or <<0, 0>> when there is no match from i.  After "för"
\* the greedy \s* takes all the whitespace; when no character of [\d\s:,\.]
\* follows it, it gives the last whitespace character back to the group.
multibuyTotalAt(s, i) ==
    LET e1 == RunEnd(s, i, "digit")
        w == RunEnd(s, e1 + 1, "space")
        p == w + 4
        sp == RunEnd(s, p, "space")
    IN  IF ~LitAt(s, w + 1, <<"f", "ö", "r">>) THEN <<0, 0>>
        ELSE IF sp + 1 <= Len(s) /\ InClass("total", s[sp + 1])
             THEN <<sp + 1, RunEnd(s, sp + 1, "total")>>
             ELSE IF sp >= p THEN <<sp, sp>>
                  ELSE <<0, 0>>

\* multibuyRegex: (\d+)\s*för\s*([\d\s:,\.]+)
multibuyMatch(s) ==
    LET starts == {i \in 1..Len(s) :
                      IsDigit(s[i]) /\ multibuyTotalAt(s, i) # <<0, 0>>}
    IN  IF starts = {} THEN <<>>
        ELSE LET i == Min(starts)
                 g == multibuyTotalAt(s, i)
             IN  <<SubSeq(s, i, g[2]),
                   SubSeq(s, i, RunEnd(s, i, "digit")),
                   SubSeq(s, g[1], g[2])>>

\* The end of the tail \s*(?:[-:\/]|kr|st|kg)* of singlePriceRegex from i on.
RECURSIVE unitTailEnd(_, _)
unitTailEnd(s, i) ==
    IF i <= Len(s) /\ s[i] \in {"-", ":", "/"} THEN unitTailEnd(s, i + 1)
    ELSE IF \/ LitAt(s, i, <<"k", "r">>)
            \/ LitAt(s, i, <<"s", "t">>)
            \/ LitAt(s, i, <<"k", "g">>)
         THEN unitTailEnd(s, i + 2)
         ELSE i - 1

\* A mutant of singlePriceMatch: the number must be followed by a unit or
\* currency token.
singlePriceMatch_needsUnit(s) ==
    LET starts == {i \in 1..Len(s) :
                      /\ IsDigit(s[i])
                      /\ (i = 1 \/ ~IsDigit(s[i - 1]))
                      /\ LET e1 == RunEnd(s, i, "digit")
                             e2 == IF e1 + 1 <= Len(s) /\ s[e1 + 1] \in {".", ","}
                                   THEN RunEnd(s, e1 + 2, "digit")
                                   ELSE e1
                             w == RunEnd(s, e2 + 1, "space")
                         IN  unitTailEnd(s, w + 1) > w}
    IN  IF starts = {} THEN <<>>
        ELSE LET i == Min(starts)
                 e1 == RunEnd(s, i, "digit")
                 e2 == IF e1 + 1 <= Len(s) /\ s[e1 + 1] \in {".", ","}
                       THEN RunEnd(s, e1 + 2, "digit")
                       ELSE e1
                 t == unitTailEnd(s, RunEnd(s, e2 + 1, "space") + 1)
             IN  <<SubSeq(s, i, t), SubSeq(s, i, e2)>>

\* singlePriceRegex: (\d+[\.,]?\d*)\s*(?:[-:\/]|kr|st|kg)*
singlePriceMatch(s) ==
    LET starts == {i \in 1..Len(s) : IsDigit(s[i])}
    IN  IF starts = {} THEN <<>>
        ELSE LET i == Min(starts)
                 e1 == RunEnd(s, i, "digit")
                 e2 == IF e1 + 1 <= Len(s) /\ s[e1 + 1] \in {".", ","}
                       THEN RunEnd(s, e1 + 2, "digit")
                       ELSE e1
                 t == unitTailEnd(s, RunEnd(s, e2 + 1, "space") + 1)
             IN  <<SubSeq(s, i, t), SubSeq(s, i, e2)>>

OrdPris == <<"O", "r", "d", ".", "p", "r", "i", "s">>

\* originalPriceRegex: Ord\.pris\s*([\d:,-]+)
originalPriceMatch(s) ==
    LET priceAt(i) == RunEnd(s, i + Len(OrdPris), "space") + 1
        starts == {i \in 1..Len(s) :
                      /\ LitAt(s, i, OrdPris)
                      /\ priceAt(i) <= Len(s)
                      /\ InClass("orig", s[priceAt(i)])}
    IN  IF starts = {} THEN <<>>
        ELSE LET i == Min(starts)
                 e == RunEnd(s, priceAt(i), "orig")
             IN  <<SubSeq(s, i, e), SubSeq(s, priceAt(i), e)>>

\* strconv.Atoi(s): an optional sign and at least one digit, nothing else.
AtoiResult(s) ==
    LET signed == s # <<>> /\ s[1] \in {"+", "-"}
        body == IF signed THEN Tail(s) ELSE s
    IN  IF body = <<>> \/ \E i \in 1..Len(body) : ~IsDigit(body[i])
        THEN [err |-> TRUE, val |-> 0]
        ELSE [err |-> FALSE,
              val |-> IF signed /\ s[1] = "-" THEN -DigitsValue(body)
                      ELSE DigitsValue(body)]

\* The value of strconv.Atoi where the code discards the error.
Atoi(s) == AtoiResult(s).val

(***************************************************************************)
(* internal/service/offer.go: calculateDiscount.                           *)
(***************************************************************************)
RatSub(a, b) == Rat(a.n * b.d - b.n * a.d, a.d * b.d)
RatMul(a, b) == Rat(a.n * b.n, a.d * b.d)
\* a / b for b # 0.
RatDiv(a, b) ==
    IF b.n < 0 THEN Rat(-(a.n * b.d), a.d * (-b.n)) ELSE Rat(a.n * b.d, a.d * b.n)

\* floor(m * 10^k / d) and the remainder's numerator, for 0 <= m, by long
\* division: <<quotient, remainder>>.
RECURSIVE ScaledDiv(_, _, _)
ScaledDiv(m, d, k) ==
    IF k = 0 THEN <<m \div d, m % d>>
    ELSE LET prev == ScaledDiv(m, d, k - 1)
         IN  <<prev[1] * 10 + (prev[2] * 10) \div d, (prev[2] * 10) % d>>

\* A mutant of Round2: truncation toward zero instead of rounding.
Round2_trunc(x) ==
    LET qr == ScaledDiv(Abs(x.n), x.d, 2)
    IN  Rat((IF x.n < 0 THEN -qr[1] ELSE qr[1]), 100)

\* math.Round(x * 100) / 100: x rounded to two decimals, halves away from
\* zero.
Round2(x) ==
    LET qr == ScaledDiv(Abs(x.n), x.d, 2)
        up == IF 2 * qr[2] >= x.d THEN 1 ELSE 0
        mag == qr[1] + up
    IN  Rat((IF x.n < 0 THEN -mag ELSE mag), 100)

\* A mutant of calculateDiscount: the multi-buy baseline forgets the quantity.
calculateDiscount_noqty(offer) ==
    IF offer.Type = "percentage" THEN Rat(offer.Discount, 1)
    ELSE IF offer.Type \notin {"single", "multibuy"} THEN Zero
    ELSE LET originalTotal == offer.OriginalPrice
             saleTotal == IF offer.Type = "single" THEN offer.SalePrice
                          ELSE offer.SalePriceTotal
         IN  IF originalTotal = Zero THEN Zero
             ELSE Round2(RatMul(RatDiv(RatSub(originalTotal, saleTotal), originalTotal),
                                Rat(100, 1)))

calculateDiscount(offer) ==
    IF offer.Type = "percentage" THEN Rat(offer.Discount, 1)
    ELSE IF offer.Type \notin {"single", "multibuy"} THEN Zero
    ELSE LET originalTotal == IF offer.Type = "single" THEN offer.OriginalPrice
                              ELSE RatMul(offer.OriginalPrice, Rat(offer.SaleQuantity, 1))
             saleTotal == IF offer.Type = "single" THEN offer.SalePrice
                          ELSE offer.SalePriceTotal
         IN  IF originalTotal = Zero THEN Zero
             ELSE Round2(RatMul(RatDiv(RatSub(originalTotal, saleTotal), originalTotal),
                                Rat(100, 1)))

(***************************************************************************)
(* internal/service/offer.go: GetStoreOffers.                              *)
(***************************************************************************)
\* fmt.Sprintf("%s/%s?id=%s&action=details", ICA_BASE_URL, slug, id): the
\* URL is kept as its three parts.
ProductURL(store, PromotionID) ==
    [base |-> "https://www.ica.se/erbjudanden", slug |-> store.URLSlug, id |-> PromotionID]

\* A mutant of NewDeal: without an original-price match the price of the
\* deal text is taken.
NewDeal_origFromDeal(store, rawDeal) ==
    LET match == originalPriceMatch(rawDeal.OriginalText)
        fallback == singlePriceMatch(rawDeal.DealText)
    IN  [StoreName |-> store.Name,
         Name |-> rawDeal.Name,
         ProductURL |-> ProductURL(store, rawDeal.PromotionID),
         Type |-> "unknown",
         OriginalPrice |-> IF Len(match) > 1 THEN parsePrice(match[2])
                           ELSE IF Len(fallback) > 1 THEN parsePrice(fallback[2])
                           ELSE Zero,
         SalePrice |-> Zero,
         SaleQuantity |-> 0,
         SalePriceTotal |-> Zero,
         Discount |-> 0,
         DiscountPercentage |-> Zero]

\* The offer as constructed at lines 161-168, before classification.
NewDeal(store, rawDeal) ==
    LET match == originalPriceMatch(rawDeal.OriginalText)
    IN  [StoreName |-> store.Name,
         Name |-> rawDeal.Name,
         ProductURL |-> ProductURL(store, rawDeal.PromotionID),
         Type |-> "unknown",
         OriginalPrice |-> IF Len(match) > 1 THEN parsePrice(match[2]) ELSE Zero,
         SalePrice |-> Zero,
         SaleQuantity |-> 0,
         SalePriceTotal |-> Zero,
         Discount |-> 0,
         DiscountPercentage |-> Zero]

\* A mutant of Classify: the multi-buy pattern is tried before the percentage.
Classify_multibuyFirst(deal, DealText) ==
    LET pm == percentageMatch(DealText)
        mm == multibuyMatch(DealText)
        sm == singlePriceMatch(DealText)
    IN  IF Len(mm) > 2
        THEN [deal EXCEPT !.Type = "multibuy",
                          !.SaleQuantity = Atoi(mm[2]),
                          !.SalePriceTotal = parsePrice(mm[3])]
        ELSE IF Len(pm) > 1
        THEN [deal EXCEPT !.Type = "percentage", !.Discount = Atoi(pm[2])]
        ELSE IF Len(sm) > 1
        THEN [deal EXCEPT !.Type = "single", !.SalePrice = parsePrice(sm[2])]
        ELSE deal

\* A mutant of Classify: the single-price pattern is tried before multi-buy.
Classify_singleFirst(deal, DealText) ==
    LET pm == percentageMatch(DealText)
        mm == multibuyMatch(DealText)
        sm == singlePriceMatch(DealText)
    IN  IF Len(pm) > 1
        THEN [deal EXCEPT !.Type = "percentage", !.Discount = Atoi(pm[2])]
        ELSE IF Len(sm) > 1
        THEN [deal EXCEPT !.Type = "single", !.SalePrice = parsePrice(sm[2])]
        ELSE IF Len(mm) > 2
        THEN [deal EXCEPT !.Type = "multibuy",
                          !.SaleQuantity = Atoi(mm[2]),
                          !.SalePriceTotal = parsePrice(mm[3])]
        ELSE deal

\* A mutant of Classify: an unmatched deal is priced from its original price.
Classify_unknownPriced(deal, DealText) ==
    LET pm == percentageMatch(DealText)
        mm == multibuyMatch(DealText)
        sm == singlePriceMatch(DealText)
    IN  IF Len(pm) > 1
        THEN [deal EXCEPT !.Type = "percentage", !.Discount = Atoi(pm[2])]
        ELSE IF Len(mm) > 2
        THEN [deal EXCEPT !.Type = "multibuy",
                          !.SaleQuantity = Atoi(mm[2]),
                          !.SalePriceTotal = parsePrice(mm[3])]
        ELSE IF Len(sm) > 1
        THEN [deal EXCEPT !.Type = "single", !.SalePrice = parsePrice(sm[2])]
        ELSE [deal EXCEPT !.SalePrice = deal.OriginalPrice]

\* A mutant of Classify: a percentage deal also records the multi-buy
\* quantity and total written next to it.
Classify_keepMultibuy(deal, DealText) ==
    LET pm == percentageMatch(DealText)
        mm == multibuyMatch(DealText)
        sm == singlePriceMatch(DealText)
    IN  IF Len(pm) > 1
        THEN IF Len(mm) > 2
             THEN [deal EXCEPT !.Type = "percentage", !.Discount = Atoi(pm[2]),
                               !.SaleQuantity = Atoi(mm[2]),
                               !.SalePriceTotal = parsePrice(mm[3])]
             ELSE [deal EXCEPT !.Type = "percentage", !.Discount = Atoi(pm[2])]
        ELSE IF Len(mm) > 2
        THEN [deal EXCEPT !.Type = "multibuy",
                          !.SaleQuantity = Atoi(mm[2]),
                          !.SalePriceTotal = parsePrice(mm[3])]
        ELSE IF Len(sm) > 1
        THEN [deal EXCEPT !.Type = "single", !.SalePrice = parsePrice(sm[2])]
        ELSE deal

\* Lines 170-181: the offer type and its sale details, first match wins.
Classify(deal, DealText) ==
    LET pm == percentageMatch(DealText)
        mm == multibuyMatch(DealText)
        sm == singlePriceMatch(DealText)
    IN  IF Len(pm) > 1
        THEN [deal EXCEPT !.Type = "percentage", !.Discount = Atoi(pm[2])]
        ELSE IF Len(mm) > 2
        THEN [deal EXCEPT !.Type = "multibuy",
                          !.SaleQuantity = Atoi(mm[2]),
                          !.SalePriceTotal = parsePrice(mm[3])]
        ELSE IF Len(sm) > 1
        THEN [deal EXCEPT !.Type = "single", !.SalePrice = parsePrice(sm[2])]
        ELSE deal

\* A mutant of TransformDeal: the discount percentage is not computed.
TransformDeal_noDiscount(store, rawDeal) ==
    Classify(NewDeal(store, rawDeal), rawDeal.DealText)

\* One iteration of the loop at lines 154-187.
TransformDeal(store, rawDeal) ==
    LET deal == Classify(NewDeal(store, rawDeal), rawDeal.DealText)
    IN  [deal EXCEPT !.DiscountPercentage = calculateDiscount(deal)]

\* A mutant of TransformLoop: offers of unknown type are not appended.
RECURSIVE TransformLoop_dropUnknown(_, _)
TransformLoop_dropUnknown(store, deals) ==
    IF deals = <<>> THEN <<>>
    ELSE LET deal == TransformDeal(store, deals[Len(deals)])
             init == TransformLoop_dropUnknown(store, SubSeq(deals, 1, Len(deals) - 1))
         IN  IF deal.Type = "unknown" THEN init ELSE Append(init, deal)

\* The loop at lines 152-187: offers = append(offers, deal) per raw deal.
RECURSIVE TransformLoop(_, _)
TransformLoop(store, deals) ==
    IF deals = <<>> THEN <<>>
    ELSE Append(TransformLoop(store, SubSeq(deals, 1, Len(deals) - 1)),
                TransformDeal(store, deals[Len(deals)]))

(***************************************************************************)
(* Each specification below exercises one part of the program and leaves   *)
(* the variables of the other parts at these values.                       *)
(***************************************************************************)
IdlePrice ==
    /\ priceString = <<>>
    /\ priceOut = Zero
    /\ pricePc = "idle"

IdleCalc ==
    /\ calcOffer = [Type |-> "unknown"]
    /\ calcOut = Zero
    /\ calcPc = "idle"

IdleSvc ==
    /\ svcStore = [Name |-> "", URLSlug |-> ""]
    /\ fetchErr = FALSE
    /\ parseErr = FALSE
    /\ rawDeals = <<>>
    /\ svcOffers = <<>>
    /\ svcErr = "none"
    /\ svcPc = "idle"

IdleWait ==
    /\ dom = <<>>
    /\ listLengthAttr = <<>>
    /\ listLengthStr = <<>>
    /\ listLength = 0
    /\ wsPc = "idle"
    /\ wsErr = "none"

IdleMain ==
    /\ variant = "none"
    /\ scrapeOk = <<>>
    /\ insertOk = <<>>
    /\ hasOffers = <<>>
    /\ taskPc = <<>>
    /\ gCtxDone = FALSE
    /\ firstErr = 0
    /\ inserted = {}
    /\ mainPc = "idle"
    /\ reported = {}

IdleRepo ==
    /\ table = {}
    /\ tableBefore = {}
    /\ now = 1
    /\ offersArg = <<>>
    /\ fromScrape = FALSE
    /\ rowsAffected = 0
    /\ repoErr = "none"
    /\ apiOut = {}
    /\ apiErr = "none"
    /\ repoCalls = 0
    /\ repoPc = "idle"

IdleParse ==
    /\ htmlDoc = <<>>
    /\ readErr = FALSE
    /\ rawOffers = <<>>
    /\ extractErr = "none"
    /\ extractPc = "idle"

IdleFetch ==
    /\ fetchPc = "idle"
    /\ deadlinePassed = FALSE
    /\ fullHTML = <<>>
    /\ readerReturned = FALSE
    /\ fetchRetErr = "none"

IdleSess ==
    /\ callPc = <<>>
    /\ callErr = <<>>
    /\ sessCtxDone = <<>>
    /\ held = <<>>
    /\ live = {}
    /\ uses = {}
    /\ created = 0

(***************************************************************************)
(* The inputs of the price parser.                                         *)
(***************************************************************************)
PriceAlphabet == {"0", "1", "2", ":", ",", ".", "-", " ", "a"}

PriceExamples ==
    { <<"a", "b", "c">>,
      <<"2", "0", "-", "3", "0">>,
      <<"7", "9", "9", "0">>,
      <<"7", "9", ":", "9", "0">>,
      <<"2", "5", ":", "9", "0">>,
      <<"1", "0", "0", "1", ":", "5">>,
      <<"1", "5", "0", "0", "-", "2", "5", "0", "0">>,
      <<"1", "0", ":", "0", "0", "-", "2", "0", "0", "0">>,
      <<"2", "0", "0", "0", "-", "1", "0", ":", "0", "0">>,
      <<"1", "\t", "2">>,
      <<"1", "5", ":", "-", "/", "s", "t">> }

PriceTexts ==
    PriceExamples \cup UNION {[1..k -> PriceAlphabet] : k \in 0..MaxLen}

InitPrice ==
    /\ priceString \in PriceTexts
    /\ priceOut = Zero
    /\ pricePc = "call"
    /\ IdleCalc
    /\ IdleSvc
    /\ IdleWait
    /\ IdleMain
    /\ IdleRepo
    /\ IdleParse
    /\ IdleFetch
    /\ IdleSess

\* One call of parsePrice(priceString).
ParsePrice ==
    /\ pricePc = "call"
    /\ priceOut' = parsePrice(priceString)
    /\ pricePc' = "done"
    /\ UNCHANGED <<priceString, calcVars, svcVars, waitVars, mainVars, repoVars, parseVars, fetchVars, sessVars>>

NextPrice == ParsePrice

SpecPrice == InitPrice /\ [][NextPrice]_vars

(***************************************************************************)
(* The inputs of calculateDiscount.                                        *)
(***************************************************************************)
\* Whole prices up to MaxPrice and two prices with decimals.
Prices == {Rat(k, 1) : k \in 0..MaxPrice} \cup {Rat(259, 10), Rat(1995, 100)}

\* Sale prices whose raw discount against an original price of 200 lies
\* exactly halfway between two hundredths: -12.345, 12.345, 99.995, -99.995.
TiePrices == {Rat(22469, 100), Rat(17531, 100), Rat(1, 100), Rat(39999, 100)}

CalcOffers ==
    [StoreName : {"ICA Maxi"}, Name : {"Milk"}, ProductURL : {<<>>},
     Type : {"single"}, OriginalPrice : Prices, SalePrice : Prices,
     SaleQuantity : {0}, SalePriceTotal : {Zero}, Discount : {0},
     DiscountPercentage : {Zero}]
    \cup
    [StoreName : {"ICA Maxi"}, Name : {"Milk"}, ProductURL : {<<>>},
     Type : {"multibuy"}, OriginalPrice : Prices, SalePrice : {Zero},
     SaleQuantity : 0..MaxQty, SalePriceTotal : Prices, Discount : {0},
     DiscountPercentage : {Zero}]
    \cup
    [StoreName : {"ICA Maxi"}, Name : {"Milk"}, ProductURL : {<<>>},
     Type : {"percentage", "unknown"}, OriginalPrice : {Zero, Rat(20, 1)},
     SalePrice : {Zero}, SaleQuantity : {0}, SalePriceTotal : {Zero},
     Discount : 0..MaxPrice, DiscountPercentage : {Zero}]
    \cup
    [StoreName : {"ICA Maxi"}, Name : {"Milk"}, ProductURL : {<<>>},
     Type : {"single"}, OriginalPrice : {Rat(200, 1)}, SalePrice : TiePrices,
     SaleQuantity : {0}, SalePriceTotal : {Zero}, Discount : {0},
     DiscountPercentage : {Zero}]

InitCalc ==
    /\ calcOffer \in CalcOffers
    /\ calcOut = Zero
    /\ calcPc = "call"
    /\ IdlePrice
    /\ IdleSvc
    /\ IdleWait
    /\ IdleMain
    /\ IdleRepo
    /\ IdleParse
    /\ IdleFetch
    /\ IdleSess

\* One call of calculateDiscount(calcOffer).
CalculateDiscount ==
    /\ calcPc = "call"
    /\ calcOut' = calculateDiscount(calcOffer)
    /\ calcPc' = "done"
    /\ UNCHANGED <<calcOffer, priceVars, svcVars, waitVars, mainVars, repoVars, parseVars, fetchVars, sessVars>>

NextCalc == CalculateDiscount

SpecCalc == InitCalc /\ [][NextCalc]_vars

(***************************************************************************)
(* The inputs of GetStoreOffers: the store, what Repo.Fetch and            *)
(* Parser.ParseRawOffers return.                                           *)
(***************************************************************************)
\* "2 för 30:- (20%)"
Deal_2for30_20pct ==
    <<"2", " ", "f", "ö", "r", " ", "3", "0", ":", "-", " ", "(", "2", "0", "%", ")">>
\* "15:-/st"
Deal_15st ==
    <<"1", "5", ":", "-", "/", "s", "t">>
\* "25:90/st"
Deal_2590st ==
    <<"2", "5", ":", "9", "0", "/", "s", "t">>
\* "25,90 kr"
Deal_2590kr ==
    <<"2", "5", ",", "9", "0", " ", "k", "r">>
\* "max 2 per hushåll"
Deal_max2 ==
    <<"m", "a", "x", " ", "2", " ", "p", "e", "r", " ", "h", "u", "s", "h", "å", "l", "l">>
\* "3 för 50"
Deal_3for50 ==
    <<"3", " ", "f", "ö", "r", " ", "5", "0">>
\* "20%"
Deal_20pct ==
    <<"2", "0", "%">>
\* "köp nu"
Deal_kopnu ==
    <<"k", "ö", "p", " ", "n", "u">>
\* "Ord.pris 20:00"
Orig_2000 ==
    <<"O", "r", "d", ".", "p", "r", "i", "s", " ", "2", "0", ":", "0", "0">>
\* "Ord.pris25:90 kr"
Orig_2590 ==
    <<"O", "r", "d", ".", "p", "r", "i", "s", "2", "5", ":", "9", "0", " ", "k", "r">>
\* "Ord.pris 25:90"
Orig_2590sp ==
    <<"O", "r", "d", ".", "p", "r", "i", "s", " ", "2", "5", ":", "9", "0">>
\* "Ord.pris"
Orig_none ==
    <<"O", "r", "d", ".", "p", "r", "i", "s">>

DealAlphabet == {"2", "%", "f", "ö", "r", " "}

DealExamples ==
    {Deal_2for30_20pct, Deal_15st, Deal_2590st, Deal_2590kr, Deal_max2,
     Deal_3for50, Deal_20pct, Deal_kopnu, <<>>}

OrigExamples == {<<>>, Orig_2000, Orig_2590, Orig_2590sp, Orig_none}

Stores == {[Name |-> "ICA Maxi", URLSlug |-> "maxi"]}

\* The raw offers of the lists of several promotions.
ListedRaw ==
    [PromotionID : {"p1"}, Name : {"Milk"},
     OriginalText : {<<>>, Orig_2000}, DealText : DealExamples]
    \cup
    [PromotionID : {"p2"}, Name : {"Bread"},
     OriginalText : {Orig_2590}, DealText : DealExamples]

\* The raw offers of the one-promotion lists: every deal text over
\* DealAlphabet up to MaxDealLen, and the examples.
SingleRaw ==
    [PromotionID : {"p1"}, Name : {"Milk"}, OriginalText : OrigExamples,
     DealText : DealExamples \cup UNION {[1..k -> DealAlphabet] : k \in 0..MaxDealLen}]

RawLists ==
    {<<r>> : r \in SingleRaw}
    \cup UNION {[1..k -> ListedRaw] : k \in 0..MaxDeals}

InitSvc ==
    /\ svcStore \in Stores
    /\ rawDeals \in RawLists
    /\ fetchErr \in BOOLEAN
    /\ parseErr \in BOOLEAN
    /\ (fetchErr \/ parseErr) => rawDeals = <<>>
    /\ svcOffers = <<>>
    /\ svcErr = "none"
    /\ svcPc = "call"
    /\ IdlePrice
    /\ IdleCalc
    /\ IdleWait
    /\ IdleMain
    /\ IdleRepo
    /\ IdleParse
    /\ IdleFetch
    /\ IdleSess

\* One call of GetStoreOffers(ctx, svcStore): lines 133-190.
GetStoreOffers ==
    /\ svcPc = "call"
    /\ svcPc' = "done"
    /\ IF fetchErr
       THEN svcOffers' = <<>> /\ svcErr' = "fetch"
       ELSE IF parseErr
       THEN svcOffers' = <<>> /\ svcErr' = "parse"
       ELSE svcOffers' = TransformLoop(svcStore, rawDeals) /\ svcErr' = "none"
    /\ UNCHANGED <<svcStore, fetchErr, parseErr, rawDeals, priceVars, calcVars, waitVars, mainVars, repoVars, parseVars, fetchVars, sessVars>>

NextSvc == GetStoreOffers

SpecSvc == InitSvc /\ [][NextSvc]_vars

(***************************************************************************)
(* internal/repository/ica.go: ICAOfferWaitStrategy, run against a page    *)
(* that renders while the strategy waits.  dom is the sequence of the      *)
(* children of the element the offer cards are rendered into; a child is   *)
(* a card (an article element) or another element, and is visible or not.  *)
(***************************************************************************)
Tags == {"article", "div"}

\* The positions of the elements "article" selects.
Articles(d) == {i \in 1..Len(d) : d[i].tag = "article"}

\* The cards that are visible.
VisibleCards(d) == {i \in Articles(d) : d[i].visible}

\* chromedp.WaitVisible("article", ByQuery) is satisfied: the first element
\* the selector matches is visible.
FirstCardVisible(d) == Articles(d) # {} /\ d[Min(Articles(d))].visible

\* chromedp.WaitVisible("article:nth-child(n)", ByQuery) is satisfied: the
\* n-th child of the parent is an article, and it is visible.
NthChildVisible(d, n) ==
    n \in 1..Len(d) /\ d[n].tag = "article" /\ d[n].visible

\* The decimal digits of a number below 10.
Itoa(n) == <<<<"0", "1", "2", "3", "4", "5", "6", "7", "8", "9">>[n + 1]>>

\* What data-promotion-list-length of the first card may hold: nothing (the
\* attribute is absent and reads as ""), no integer, zero, a negative number,
\* or a count.
AttrValues ==
    {<<>>, <<"a">>, <<"0">>, <<"-", "1">>} \cup {Itoa(n) : n \in 1..MaxChildren}

InitWait ==
    /\ dom = <<>>
    /\ listLengthAttr \in AttrValues
    /\ listLengthStr = <<>>
    /\ listLength = 0
    /\ wsPc = "navigate"
    /\ wsErr = "none"
    /\ IdlePrice
    /\ IdleCalc
    /\ IdleSvc
    /\ IdleMain
    /\ IdleRepo
    /\ IdleParse
    /\ IdleFetch
    /\ IdleSess

\* The page, once navigated to, appends one more child to the parent of the
\* cards.
PageAppend ==
    /\ wsPc # "navigate"
    /\ Len(dom) < MaxChildren
    /\ \E t \in Tags : dom' = Append(dom, [tag |-> t, visible |-> FALSE])
    /\ UNCHANGED <<listLengthAttr, listLengthStr, listLength, wsPc, wsErr>>
    /\ UNCHANGED <<priceVars, calcVars, svcVars, mainVars, repoVars, parseVars, fetchVars, sessVars>>

\* The page makes one child visible.
PageShow ==
    /\ wsPc # "navigate"
    /\ \E i \in 1..Len(dom) :
          /\ ~dom[i].visible
          /\ dom' = [dom EXCEPT ![i].visible = TRUE]
    /\ UNCHANGED <<listLengthAttr, listLengthStr, listLength, wsPc, wsErr>>
    /\ UNCHANGED <<priceVars, calcVars, svcVars, mainVars, repoVars, parseVars, fetchVars, sessVars>>

\* Lines 47-48: chromedp.Navigate and the Evaluate after it succeed.
Navigate ==
    /\ wsPc = "navigate"
    /\ wsPc' = "waitFirst"
    /\ UNCHANGED <<dom, listLengthAttr, listLengthStr, listLength, wsErr>>
    /\ UNCHANGED <<priceVars, calcVars, svcVars, mainVars, repoVars, parseVars, fetchVars, sessVars>>

\* Line 49: WaitVisible("article") returns once the first card is visible.
WaitFirstVisible ==
    /\ wsPc = "waitFirst"
    /\ FirstCardVisible(dom)
    /\ wsPc' = "readAttr"
    /\ UNCHANGED <<dom, listLengthAttr, listLengthStr, listLength, wsErr>>
    /\ UNCHANGED <<priceVars, calcVars, svcVars, mainVars, repoVars, parseVars, fetchVars, sessVars>>

\* A mutant of ReadListLength: a count of zero is accepted.
ReadListLength_acceptZero ==
    /\ wsPc = "readAttr"
    /\ listLengthStr' = listLengthAttr
    /\ LET r == AtoiResult(listLengthAttr)
       IN  IF r.err \/ r.val < 0
           THEN wsPc' = "error" /\ wsErr' = "listLength" /\ UNCHANGED listLength
           ELSE wsPc' = "waitLast" /\ listLength' = r.val /\ UNCHANGED wsErr
    /\ UNCHANGED <<dom, listLengthAttr>>
    /\ UNCHANGED <<priceVars, calcVars, svcVars, mainVars, repoVars, parseVars, fetchVars, sessVars>>

\* Lines 50-63: the attribute is read and converted; a value that is no
\* integer, or is not positive, ends the strategy with an error.
ReadListLength ==
    /\ wsPc = "readAttr"
    /\ listLengthStr' = listLengthAttr
    /\ LET r == AtoiResult(listLengthAttr)
       IN  IF r.err \/ r.val <= 0
           THEN wsPc' = "error" /\ wsErr' = "listLength" /\ UNCHANGED listLength
           ELSE wsPc' = "waitLast" /\ listLength' = r.val /\ UNCHANGED wsErr
    /\ UNCHANGED <<dom, listLengthAttr>>
    /\ UNCHANGED <<priceVars, calcVars, svcVars, mainVars, repoVars, parseVars, fetchVars, sessVars>>

\* Lines 66-77: WaitVisible("article:nth-child(listLength)") returns and the
\* strategy returns nil.
WaitLastVisible ==
    /\ wsPc = "waitLast"
    /\ NthChildVisible(dom, listLength)
    /\ wsPc' = "ok"
    /\ UNCHANGED <<dom, listLengthAttr, listLengthStr, listLength, wsErr>>
    /\ UNCHANGED <<priceVars, calcVars, svcVars, mainVars, repoVars, parseVars, fetchVars, sessVars>>

\* Lines 53-55 and 73-75: chromedp.Run returns an error (navigation failed,
\* or the context's deadline passed) and the strategy returns it.
RunFails ==
    /\ wsPc \in {"navigate", "waitFirst", "readAttr", "waitLast"}
    /\ wsPc' = "error"
    /\ wsErr' = IF wsPc = "waitLast" THEN "lastOffer" ELSE "navigate"
    /\ UNCHANGED <<dom, listLengthAttr, listLengthStr, listLength>>
    /\ UNCHANGED <<priceVars, calcVars, svcVars, mainVars, repoVars, parseVars, fetchVars, sessVars>>

NextWait ==
    \/ PageAppend
    \/ PageShow
    \/ Navigate
    \/ WaitFirstVisible
    \/ ReadListLength
    \/ WaitLastVisible
    \/ RunFails

SpecWait == InitWait /\ [][NextWait]_vars

(***************************************************************************)
(* cmd/parser/main.go: one goroutine per store in an errgroup created by   *)
(* errgroup.WithContext.  The group's context gCtx is cancelled when the   *)
(* first task returns an error.  InsertOffers runs under gCtx; the scrape  *)
(* runs under the background context in cmd/parser/main.go and under gCtx  *)
(* in the other main of the repository (unnamed/part_001).                 *)
(***************************************************************************)
StoreIds == 1..NumStores

Variants == {"main.go", "part_001"}

\* Whether the context handed to GetStoreOffers is cancelled.
ScrapeCtxDone == variant = "part_001" /\ gCtxDone

InitMain ==
    /\ variant \in Variants
    /\ scrapeOk \in [StoreIds -> BOOLEAN]
    /\ insertOk \in [StoreIds -> BOOLEAN]
    /\ hasOffers \in [StoreIds -> BOOLEAN]
    /\ taskPc = [s \in StoreIds |-> "start"]
    /\ gCtxDone = FALSE
    /\ firstErr = 0
    /\ inserted = {}
    /\ mainPc = "wait"
    /\ reported = {}
    /\ IdlePrice
    /\ IdleCalc
    /\ IdleSvc
    /\ IdleWait
    /\ IdleRepo
    /\ IdleParse
    /\ IdleFetch
    /\ IdleSess

\* A task returns err # nil to the group: the first error is kept and gCtx is
\* cancelled (errgroup's errOnce); later errors are dropped.
TaskFails(s) ==
    /\ taskPc' = [taskPc EXCEPT ![s] = "failed"]
    /\ firstErr' = IF firstErr = 0 THEN s ELSE firstErr
    /\ gCtxDone' = TRUE

\* g.Go starts the task of store s, which calls GetStoreOffers.
StartScrape(s) ==
    /\ taskPc[s] = "start"
    /\ taskPc' = [taskPc EXCEPT ![s] = "scraping"]
    /\ UNCHANGED <<variant, scrapeOk, insertOk, hasOffers, gCtxDone, firstErr,
                   inserted, mainPc, reported>>
    /\ UNCHANGED <<priceVars, calcVars, svcVars, waitVars, repoVars, parseVars, fetchVars, sessVars>>

\* GetStoreOffers returns: with the offers, or with an error when the scrape
\* fails on its own or its context has been cancelled meanwhile.
FinishScrape(s) ==
    /\ taskPc[s] = "scraping"
    /\ IF scrapeOk[s] /\ ~ScrapeCtxDone
       THEN /\ taskPc' = [taskPc EXCEPT ![s] = "scraped"]
            /\ UNCHANGED <<firstErr, gCtxDone>>
       ELSE TaskFails(s)
    /\ UNCHANGED <<variant, scrapeOk, insertOk, hasOffers, inserted, mainPc, reported>>
    /\ UNCHANGED <<priceVars, calcVars, svcVars, waitVars, repoVars, parseVars, fetchVars, sessVars>>

\* InsertOffers(gCtx, offers) is called: an empty list returns at once
\* without touching the database; with gCtx already cancelled the upsert
\* fails with the context's error.
StartInsert(s) ==
    /\ taskPc[s] = "scraped"
    /\ IF ~hasOffers[s]
       THEN /\ taskPc' = [taskPc EXCEPT ![s] = "ok"]
            /\ UNCHANGED <<firstErr, gCtxDone>>
       ELSE IF gCtxDone
       THEN TaskFails(s)
       ELSE /\ taskPc' = [taskPc EXCEPT ![s] = "inserting"]
            /\ UNCHANGED <<firstErr, gCtxDone>>
    /\ UNCHANGED <<variant, scrapeOk, insertOk, hasOffers, inserted, mainPc, reported>>
    /\ UNCHANGED <<priceVars, calcVars, svcVars, waitVars, repoVars, parseVars, fetchVars, sessVars>>

\* The upsert that is under way ends: it fails on its own, or, with gCtx
\* cancelled while it ran, it is either aborted or has already gone through.
FinishInsert(s) ==
    /\ taskPc[s] = "inserting"
    /\ \E aborted \in BOOLEAN :
          /\ aborted => gCtxDone
          /\ IF insertOk[s] /\ ~aborted
             THEN /\ taskPc' = [taskPc EXCEPT ![s] = "ok"]
                  /\ inserted' = inserted \cup {s}
                  /\ UNCHANGED <<firstErr, gCtxDone>>
             ELSE /\ TaskFails(s)
                  /\ UNCHANGED inserted
    /\ UNCHANGED <<variant, scrapeOk, insertOk, hasOffers, mainPc, reported>>
    /\ UNCHANGED <<priceVars, calcVars, svcVars, waitVars, repoVars, parseVars, fetchVars, sessVars>>

\* A mutant of Wait: g.Wait() returns as soon as one task has returned.
Wait_firstReturn ==
    /\ mainPc = "wait"
    /\ \E s \in StoreIds : taskPc[s] \in {"ok", "failed"}
    /\ gCtxDone' = TRUE
    /\ IF firstErr # 0
       THEN mainPc' = "fatal" /\ reported' = {firstErr}
       ELSE mainPc' = "complete" /\ reported' = {}
    /\ UNCHANGED <<variant, scrapeOk, insertOk, hasOffers, taskPc, firstErr, inserted>>
    /\ UNCHANGED <<priceVars, calcVars, svcVars, waitVars, repoVars, parseVars, fetchVars, sessVars>>

\* Lines 95-107: g.Wait() returns once every task has returned.  With an
\* error, log.Fatalf prints that one error (the first) and the process exits;
\* without, the count and the completion summary are printed.
Wait ==
    /\ mainPc = "wait"
    /\ \A s \in StoreIds : taskPc[s] \in {"ok", "failed"}
    /\ gCtxDone' = TRUE
    /\ IF firstErr # 0
       THEN mainPc' = "fatal" /\ reported' = {firstErr}
       ELSE mainPc' = "complete" /\ reported' = {}
    /\ UNCHANGED <<variant, scrapeOk, insertOk, hasOffers, taskPc, firstErr, inserted>>
    /\ UNCHANGED <<priceVars, calcVars, svcVars, waitVars, repoVars, parseVars, fetchVars, sessVars>>

NextMain ==
    \/ \E s \in StoreIds : StartScrape(s)
    \/ \E s \in StoreIds : FinishScrape(s)
    \/ \E s \in StoreIds : StartInsert(s)
    \/ \E s \in StoreIds : FinishInsert(s)
    \/ Wait

SpecMain == InitMain /\ [][NextMain]_vars

(***************************************************************************)
(* repository: PostgresOfferRepository over the offers table, called by    *)
(* the scraper's task (GetStoreOffers, then InsertOffers) and by the API   *)
(* handler (GetAllOffers).  A row is a models.Offer with its ID; instants  *)
(* are naturals and instant 0 is the zero time.Time a field has when the   *)
(* code never sets it.  CreatedAt, UpdatedAt and DeletedAt are left out:   *)
(* no code of the repository deletes a row or reads these columns.         *)
(***************************************************************************)
\* CreateInBatches(&offers, 100): the offers of one statement.
BatchSize == 100

\* The unique index idx_store_name_product_name and the conflict target.
Key(o) == <<o.StoreName, o.Name, o.ProductURL>>

\* A models.Offer as GetStoreOffers leaves it: ValidFrom and ValidTo are
\* never assigned, so they hold the zero time.
ZeroValidity(offer) == offer @@ [ValidFrom |-> 0, ValidTo |-> 0]

\* The same offer with a validity period set by the caller.
WithValidity(offer, from, to) == offer @@ [ValidFrom |-> from, ValidTo |-> to]

\* The column values of a row: numeric(10, 2) columns round to two decimals.
Stored(o) ==
    [o EXCEPT !.OriginalPrice = Round2(@), !.SalePrice = Round2(@),
              !.SalePriceTotal = Round2(@), !.DiscountPercentage = Round2(@)]

\* numeric(5, 2) holds magnitudes below 1000; a larger one fails the statement.
FitsColumns(o) == Abs(o.DiscountPercentage.n) < 1000 * o.DiscountPercentage.d

\* Whether two offers of one statement propose the same key: Postgres
\* refuses an ON CONFLICT DO UPDATE that would affect a row a second time.
HasDuplicateKey(offers) ==
    \E i, j \in 1..Len(offers) :
        /\ i < j
        /\ (i - 1) \div BatchSize = (j - 1) \div BatchSize
        /\ Key(offers[i]) = Key(offers[j])

\* The ID a new row draws: one no row of the table has (no row is deleted).
FreshID(rows) == Cardinality(rows) + 1

\* A mutant of UpsertRow: a plain insert, without the conflict clause.
UpsertRow_insertOnly(rows, o) ==
    rows \cup {Stored(o) @@ [ID |-> FreshID(rows)]}

\* INSERT ... ON CONFLICT (store_name, name, product_url) DO UPDATE SET all
\* columns: the row of that key keeps its ID and takes the new values.
UpsertRow(rows, o) ==
    IF \E r \in rows : Key(r) = Key(o)
    THEN {IF Key(r) = Key(o) THEN Stored(o) @@ [ID |-> r.ID] ELSE r : r \in rows}
    ELSE rows \cup {Stored(o) @@ [ID |-> FreshID(rows)]}

\* CreateInBatches: the offers in order.
RECURSIVE UpsertAll(_, _)
UpsertAll(rows, offers) ==
    IF offers = <<>> THEN rows
    ELSE UpsertRow(UpsertAll(rows, SubSeq(offers, 1, Len(offers) - 1)),
                   offers[Len(offers)])

\* InsertOffers(ctx, offers): the rows, the count and the error it leaves.
\* The statement runs in one transaction.
InsertOffersResult(rows, offers, ctxDone) ==
    IF offers = <<>>
    THEN [table |-> rows, count |-> 0, err |-> "none"]
    ELSE IF ctxDone
            \/ HasDuplicateKey(offers)
            \/ \E i \in 1..Len(offers) : ~FitsColumns(offers[i])
    THEN [table |-> rows, count |-> 0, err |-> "upsert"]
    ELSE [table |-> UpsertAll(rows, offers), count |-> Len(offers), err |-> "none"]

\* GetAllOffers: WHERE valid_from <= now AND valid_to >= now.
GetAllOffersResult(rows, t) ==
    {r \in rows : r.ValidFrom <= t /\ r.ValidTo >= t}

\* "1000%"
Deal_1000pct ==
    <<"1", "0", "0", "0", "%">>

\* The raw promotions the scraper's task finds on the store's page.
RepoRaw ==
    [PromotionID : {"p1", "p2"}, Name : {"Milk"}, OriginalText : {Orig_2000},
     DealText : {Deal_15st}]
    \cup
    [PromotionID : {"p2"}, Name : {"Milk"}, OriginalText : {Orig_2000},
     DealText : {Deal_1000pct}]

RepoRawLists == UNION {[1..k -> RepoRaw] : k \in 0..MaxDeals}

\* The offers of the task: GetStoreOffers' result, as main.go passes it on.
ScrapedOffers(store, raws) ==
    LET offers == TransformLoop(store, raws)
    IN  [i \in 1..Len(offers) |-> ZeroValidity(offers[i])]

\* The validity periods another caller of InsertOffers sets.
Windows == {<<1, 1>>, <<1, MaxNow>>}

\* The lists of another caller: offers of a scraped key, valid for a period.
CallerRaw ==
    [PromotionID : {"p1"}, Name : {"Milk"}, OriginalText : {Orig_2000},
     DealText : {Deal_3for50}]

CallerLists(store) ==
    UNION {{[i \in 1..k |-> WithValidity(TransformDeal(store, raws[i]), w[1], w[2])] :
                raws \in [1..k -> CallerRaw], w \in Windows} : k \in 1..MaxDeals}

InitRepo ==
    /\ table = {}
    /\ tableBefore = {}
    /\ now \in 1..MaxNow
    /\ offersArg = <<>>
    /\ fromScrape = FALSE
    /\ rowsAffected = 0
    /\ repoErr = "none"
    /\ apiOut = {}
    /\ apiErr = "none"
    /\ repoCalls = 0
    /\ repoPc = "idle"
    /\ IdlePrice
    /\ IdleCalc
    /\ IdleSvc
    /\ IdleWait
    /\ IdleMain
    /\ IdleParse
    /\ IdleFetch
    /\ IdleSess

\* One call InsertOffers(ctx, offers) against the table.
Insert(offers, ctxDone, scraped) ==
    LET res == InsertOffersResult(table, offers, ctxDone)
    IN  /\ repoCalls < MaxCalls
        /\ repoCalls' = repoCalls + 1
        /\ tableBefore' = table
        /\ table' = res.table
        /\ rowsAffected' = res.count
        /\ repoErr' = res.err
        /\ offersArg' = offers
        /\ fromScrape' = scraped
        /\ repoPc' = "inserted"
        /\ UNCHANGED <<now, apiOut, apiErr>>
        /\ UNCHANGED <<priceVars, calcVars, svcVars, waitVars, mainVars, parseVars, fetchVars, sessVars>>

\* The scraper's task for one store: GetStoreOffers succeeded and its offers
\* go to InsertOffers(gCtx, offers).
ScrapeAndInsert ==
    \E store \in Stores, raws \in RepoRawLists, ctxDone \in BOOLEAN :
        Insert(ScrapedOffers(store, raws), ctxDone, TRUE)

\* InsertOffers called with offers that carry a validity period.
InsertOffers ==
    \E store \in Stores, ctxDone \in BOOLEAN :
        \E offers \in CallerLists(store) : Insert(offers, ctxDone, FALSE)

\* The API handler: GetAllOffers under the request's context.
GetAllOffers ==
    /\ \E ctxDone \in BOOLEAN :
           IF ctxDone
           THEN apiOut' = {} /\ apiErr' = "retrieve"
           ELSE apiOut' = GetAllOffersResult(table, now) /\ apiErr' = "none"
    /\ repoPc' = "queried"
    /\ UNCHANGED <<table, tableBefore, now, offersArg, fromScrape,
                   rowsAffected, repoErr, repoCalls>>
    /\ UNCHANGED <<priceVars, calcVars, svcVars, waitVars, mainVars, parseVars, fetchVars, sessVars>>

\* time.Now() advances.
Tick ==
    /\ now < MaxNow
    /\ now' = now + 1
    /\ UNCHANGED <<table, tableBefore, offersArg, fromScrape, rowsAffected,
                   repoErr, apiOut, apiErr, repoCalls, repoPc>>
    /\ UNCHANGED <<priceVars, calcVars, svcVars, waitVars, mainVars, parseVars, fetchVars, sessVars>>

NextRepo ==
    \/ ScrapeAndInsert
    \/ InsertOffers
    \/ GetAllOffers
    \/ Tick

SpecRepo == InitRepo /\ [][NextRepo]_vars

(***************************************************************************)
(* internal/parser/ica.go: ParseRawOffers.  The document is the sequence   *)
(* of its elements in document order; an element is an article or another  *)
(* element, with the data-promotion-id attribute it carries (or not) and   *)
(* the texts of its .offer-card__title, .offer-card__text and              *)
(* .price-splash__text descendants.                                        *)
(***************************************************************************)
\* strings.ToLower on the letters of the model's texts.
LowerChar(c) ==
    CASE c = "F" -> "f"
      [] c = "Ö" -> "ö"
      [] c = "R" -> "r"
      [] c = "M" -> "m"
      [] c = "S" -> "s"
      [] c = "T" -> "t"
      [] OTHER -> c

ToLower(s) == [i \in 1..Len(s) |-> LowerChar(s[i])]

\* strings.TrimSpace: leading and trailing white space removed.
RECURSIVE TrimSpace(_)
TrimSpace(s) ==
    IF s = <<>> THEN s
    ELSE IF IsSpace(s[1]) THEN TrimSpace(Tail(s))
    ELSE IF IsSpace(s[Len(s)]) THEN TrimSpace(SubSeq(s, 1, Len(s) - 1))
    ELSE s

\* Lines 54-73: the callback of Each on one article; the record it appends,
\* or nothing.
ExtractCard(sel) ==
    IF ~sel.idAttr.exists THEN <<>>
    ELSE LET name == TrimSpace(sel.title)
         IN  IF name = <<>> THEN <<>>
             ELSE <<[PromotionID |-> sel.idAttr.val,
                     Name |-> name,
                     OriginalText |-> sel.text,
                     DealText |-> ToLower(sel.splash)]>>

\* A mutant of ExtractAll: the cards are collected in reverse order.
RECURSIVE ExtractAll_reversed(_)
ExtractAll_reversed(doc) ==
    IF doc = <<>> THEN <<>>
    ELSE LET rest == ExtractAll_reversed(SubSeq(doc, 1, Len(doc) - 1))
             last == doc[Len(doc)]
         IN  IF last.tag = "article" THEN ExtractCard(last) \o rest ELSE rest

\* Line 53: Find("article").Each(...) over the document, in document order.
RECURSIVE ExtractAll(_)
ExtractAll(doc) ==
    IF doc = <<>> THEN <<>>
    ELSE LET rest == ExtractAll(SubSeq(doc, 1, Len(doc) - 1))
             last == doc[Len(doc)]
         IN  IF last.tag = "article" THEN rest \o ExtractCard(last) ELSE rest

\* "15:-/ST": a deal text with capitals.
Splash_15ST ==
    <<"1", "5", ":", "-", "/", "S", "T">>

\* What a data-promotion-id attribute may be: absent, empty, or an id.
IdAttrs ==
    {[exists |-> FALSE, val |-> <<>>], [exists |-> TRUE, val |-> <<>>],
     [exists |-> TRUE, val |-> <<"p", "1">>], [exists |-> TRUE, val |-> <<"p", "2">>]}

\* Titles: none, white space only, and names with white space around them.
Titles ==
    {<<>>, <<" ">>, <<"M">>, <<" ", "M", "\n">>, <<"M", " ", "M">>}

\* The elements of a document: offer cards and one other element.
Elements ==
    [tag : {"article"}, idAttr : IdAttrs, title : Titles,
     text : {Orig_2000}, splash : {Splash_15ST}]
    \cup
    [tag : {"article"}, idAttr : IdAttrs, title : Titles,
     text : {<<>>}, splash : {Deal_3for50}]
    \cup
    [tag : {"div"}, idAttr : {[exists |-> TRUE, val |-> <<"p", "1">>]},
     title : {<<"M">>}, text : {<<>>}, splash : {<<>>}]

Documents == UNION {[1..k -> Elements] : k \in 0..MaxCards}

InitParse ==
    /\ htmlDoc \in Documents
    /\ readErr \in BOOLEAN
    /\ rawOffers = <<>>
    /\ extractErr = "none"
    /\ extractPc = "call"
    /\ IdlePrice
    /\ IdleCalc
    /\ IdleSvc
    /\ IdleWait
    /\ IdleMain
    /\ IdleRepo
    /\ IdleFetch
    /\ IdleSess

\* One call of ParseRawOffers(ctx, reader): html.Parse fails only when the
\* reader does.
ParseRawOffers ==
    /\ extractPc = "call"
    /\ extractPc' = "done"
    /\ IF readErr
       THEN rawOffers' = <<>> /\ extractErr' = "parse"
       ELSE rawOffers' = ExtractAll(htmlDoc) /\ extractErr' = "none"
    /\ UNCHANGED <<htmlDoc, readErr>>
    /\ UNCHANGED <<priceVars, calcVars, svcVars, waitVars, mainVars, repoVars, fetchVars, sessVars>>

NextParse == ParseRawOffers

SpecParse == InitParse /\ [][NextParse]_vars

(***************************************************************************)
(* pkg/headless/fetch.go: FetchRenderedContent, called by GetStoreOffers   *)
(* through icaRepositoryImpl.Fetch, running ICAOfferWaitStrategy against   *)
(* the rendering page under the context of line 40, whose deadline is      *)
(* DefaultTimeout after the call.                                          *)
(***************************************************************************)
\* The id of the card at a child position of the rendered container.
CardId(i) == <<"p1", "p2", "p3", "p4", "p5">>[i]

\* The raw promotions of the extracted HTML: one per article, visible or not.
RECURSIVE RenderedDeals(_, _)
RenderedDeals(html, i) ==
    IF i > Len(html) THEN <<>>
    ELSE IF html[i].tag = "article"
    THEN <<[PromotionID |-> CardId(i), Name |-> "Milk",
            OriginalText |-> Orig_2000, DealText |-> Deal_15st]>>
         \o RenderedDeals(html, i + 1)
    ELSE RenderedDeals(html, i + 1)

InitFetch ==
    /\ dom = <<>>
    /\ listLengthAttr \in AttrValues
    /\ listLengthStr = <<>>
    /\ listLength = 0
    /\ wsPc = "navigate"
    /\ wsErr = "none"
    /\ fetchPc = "setup"
    /\ deadlinePassed = FALSE
    /\ fullHTML = <<>>
    /\ readerReturned = FALSE
    /\ fetchRetErr = "none"
    /\ svcStore \in Stores
    /\ fetchErr = FALSE
    /\ parseErr = FALSE
    /\ rawDeals = <<>>
    /\ svcOffers = <<>>
    /\ svcErr = "none"
    /\ svcPc = "call"
    /\ IdlePrice
    /\ IdleCalc
    /\ IdleMain
    /\ IdleRepo
    /\ IdleParse
    /\ IdleSess

\* Lines 35-41: the user agent is drawn and the context with the deadline is
\* created.
FetchSetup ==
    /\ fetchPc = "setup"
    /\ \E uaErr \in BOOLEAN :
          IF uaErr
          THEN fetchPc' = "failed" /\ fetchRetErr' = "ua"
          ELSE fetchPc' = "strategy" /\ UNCHANGED fetchRetErr
    /\ UNCHANGED <<deadlinePassed, fullHTML, readerReturned>>
    /\ UNCHANGED <<priceVars, calcVars, svcVars, waitVars, mainVars, repoVars, parseVars, sessVars>>

\* DefaultTimeout has elapsed since line 40: the context is done.
DeadlineExpires ==
    /\ fetchPc \in {"strategy", "settle", "extract"}
    /\ ~deadlinePassed
    /\ deadlinePassed' = TRUE
    /\ UNCHANGED <<fetchPc, fullHTML, readerReturned, fetchRetErr>>
    /\ UNCHANGED <<priceVars, calcVars, svcVars, waitVars, mainVars, repoVars, parseVars, sessVars>>

\* Line 74: a step of the strategy that chromedp runs under the context.
StrategyRuns ==
    /\ fetchPc = "strategy"
    /\ ~deadlinePassed
    /\ (Navigate \/ WaitFirstVisible \/ WaitLastVisible)

\* Line 74: the strategy reads and converts the attribute.
StrategyReads ==
    /\ fetchPc = "strategy"
    /\ ReadListLength

\* Line 74: chromedp.Run returns an error inside the strategy.
StrategyRunFails ==
    /\ fetchPc = "strategy"
    /\ RunFails

\* The page renders while the call is under way.
PageRenders ==
    /\ fetchPc \in {"strategy", "settle", "extract"}
    /\ (PageAppend \/ PageShow)

\* A mutant of StrategyReturns: the strategy's error is dropped and the call
\* goes on to the settle delay.
StrategyReturns_ignoreError ==
    /\ fetchPc = "strategy"
    /\ wsPc \in {"ok", "error"}
    /\ fetchPc' = "settle"
    /\ UNCHANGED <<deadlinePassed, fullHTML, readerReturned, fetchRetErr>>
    /\ UNCHANGED <<priceVars, calcVars, svcVars, waitVars, mainVars, repoVars, parseVars, sessVars>>

\* Lines 74-76: the strategy has returned; its error ends the call.
StrategyReturns ==
    /\ fetchPc = "strategy"
    /\ wsPc \in {"ok", "error"}
    /\ IF wsPc = "error"
       THEN fetchPc' = "failed" /\ fetchRetErr' = "strategy"
       ELSE fetchPc' = "settle" /\ UNCHANGED fetchRetErr
    /\ UNCHANGED <<deadlinePassed, fullHTML, readerReturned>>
    /\ UNCHANGED <<priceVars, calcVars, svcVars, waitVars, mainVars, repoVars, parseVars, sessVars>>

\* Line 81: chromedp.Sleep(DefaultWaitBuffer) ends before the deadline.
Settle ==
    /\ fetchPc = "settle"
    /\ ~deadlinePassed
    /\ fetchPc' = "extract"
    /\ UNCHANGED <<deadlinePassed, fullHTML, readerReturned, fetchRetErr>>
    /\ UNCHANGED <<priceVars, calcVars, svcVars, waitVars, mainVars, repoVars, parseVars, sessVars>>

\* Lines 84 and 94: OuterHTML of the container as it is now, returned as a
\* reader.
Extract ==
    /\ fetchPc = "extract"
    /\ ~deadlinePassed
    /\ fullHTML' = dom
    /\ readerReturned' = TRUE
    /\ fetchPc' = "done"
    /\ UNCHANGED <<deadlinePassed, fetchRetErr>>
    /\ UNCHANGED <<priceVars, calcVars, svcVars, waitVars, mainVars, repoVars, parseVars, sessVars>>

\* Lines 87-91: chromedp.Run of the settle and extraction tasks returns an
\* error (the deadline has passed, or the browser failed).
TasksFail ==
    /\ fetchPc \in {"settle", "extract"}
    /\ fetchPc' = "failed"
    /\ fetchRetErr' = "extract"
    /\ UNCHANGED <<deadlinePassed, fullHTML, readerReturned>>
    /\ UNCHANGED <<priceVars, calcVars, svcVars, waitVars, mainVars, repoVars, parseVars, sessVars>>

\* offer.go lines 136-190: Fetch has returned to GetStoreOffers, which
\* returns its error or parses and transforms the HTML.
FetchReturns ==
    /\ svcPc = "call"
    /\ fetchPc \in {"done", "failed"}
    /\ svcPc' = "done"
    /\ IF fetchPc = "failed"
       THEN /\ fetchErr' = TRUE
            /\ svcErr' = "fetch"
            /\ svcOffers' = <<>>
            /\ UNCHANGED rawDeals
       ELSE /\ rawDeals' = RenderedDeals(fullHTML, 1)
            /\ svcOffers' = TransformLoop(svcStore, RenderedDeals(fullHTML, 1))
            /\ svcErr' = "none"
            /\ UNCHANGED fetchErr
    /\ UNCHANGED <<svcStore, parseErr>>
    /\ UNCHANGED <<priceVars, calcVars, waitVars, mainVars, repoVars, parseVars, fetchVars, sessVars>>

NextFetch ==
    \/ FetchSetup
    \/ DeadlineExpires
    \/ StrategyRuns
    \/ StrategyReads
    \/ StrategyRunFails
    \/ PageRenders
    \/ StrategyReturns
    \/ Settle
    \/ Extract
    \/ TasksFail
    \/ FetchReturns

SpecFetch == InitFetch /\ [][NextFetch]_vars

\* A return the passed deadline forces: chromedp.Run fails with the
\* context's error.
DeadlineAborts ==
    /\ deadlinePassed
    /\ (StrategyRunFails \/ TasksFail)

\* Fetch has returned and GetStoreOffers has not gone on yet.
FetchReturnPending == svcPc = "call" /\ fetchPc \in {"done", "failed"}

\* The goroutine of the call keeps running and the deadline's timer fires;
\* the page is free to stall.  FetchReturns is the one step enabled while
\* FetchReturnPending holds, and it ends it.
SpecFetchFair ==
    /\ SpecFetch
    /\ WF_vars(FetchSetup)
    /\ WF_vars(DeadlineExpires)
    /\ WF_vars(DeadlineAborts)
    /\ WF_vars(StrategyReturns)
    /\ []<>(~FetchReturnPending)

(***************************************************************************)
(* pkg/headless/fetch.go: the browser sessions of FetchRenderedContent.    *)
(* The store tasks of main call Fetch concurrently; each call creates a    *)
(* timed context, an exec allocator and a Chrome context, defers the       *)
(* cancel function of each, and returns on one of four paths.              *)
(***************************************************************************)
\* The concurrent calls: one per store task.
Calls == 1..NumStores

\* The three resources of the n-th session, in the order lines 40, 65 and 68
\* create them.
Session(n) ==
    <<[kind |-> "ctx", id |-> n],
      [kind |-> "allocCtx", id |-> n],
      [kind |-> "chromeCtx", id |-> n]>>

\* The resources whose cancel functions call c has deferred.
Deferred(c) == {held[c][k] : k \in 1..Len(held[c])}

\* A mutant of RunDeferred: the exec allocator is not cancelled.
RunDeferred_leakAllocator(c) ==
    {r \in live : r \notin Deferred(c) \/ r.kind = "allocCtx"}

\* Lines 41, 66 and 69: the deferred chromeCancel, cancelAlloc and cancel run
\* when the function returns; what stays live after them.
RunDeferred(c) == live \ Deferred(c)

InitSess ==
    /\ callPc = [c \in Calls |-> "ua"]
    /\ callErr = [c \in Calls |-> "none"]
    /\ sessCtxDone = [c \in Calls |-> FALSE]
    /\ held = [c \in Calls |-> <<>>]
    /\ live = {}
    /\ uses = {}
    /\ created = 0
    /\ IdlePrice
    /\ IdleCalc
    /\ IdleSvc
    /\ IdleWait
    /\ IdleMain
    /\ IdleRepo
    /\ IdleParse
    /\ IdleFetch

\* A return of call c with the given error: the deferred cancels run.
Return(c, err) ==
    /\ callPc' = [callPc EXCEPT ![c] = "returned"]
    /\ callErr' = [callErr EXCEPT ![c] = err]
    /\ live' = RunDeferred(c)

\* Lines 35-38: useragent.Desktop fails and the call returns before any
\* resource is created.
UserAgentFails(c) ==
    /\ callPc[c] = "ua"
    /\ Return(c, "ua")
    /\ UNCHANGED <<sessCtxDone, held, uses, created>>
    /\ UNCHANGED <<priceVars, calcVars, svcVars, waitVars, mainVars, repoVars, parseVars, fetchVars>>

\* Lines 40-69: the timed context, the allocator and the Chrome context are
\* created, each new, and their cancel functions deferred.
OpenSession(c) ==
    /\ callPc[c] = "ua"
    /\ created' = created + 1
    /\ held' = [held EXCEPT ![c] = Session(created + 1)]
    /\ live' = live \cup {Session(created + 1)[k] : k \in 1..3}
    /\ callPc' = [callPc EXCEPT ![c] = "strategy"]
    /\ UNCHANGED <<callErr, sessCtxDone, uses>>
    /\ UNCHANGED <<priceVars, calcVars, svcVars, waitVars, mainVars, repoVars, parseVars, fetchVars>>

\* The deadline of line 40 passes, or the caller's context is cancelled: the
\* contexts of call c are done.
CtxExpires(c) ==
    /\ callPc[c] \in {"strategy", "tasks"}
    /\ ~sessCtxDone[c]
    /\ sessCtxDone' = [sessCtxDone EXCEPT ![c] = TRUE]
    /\ UNCHANGED <<callPc, callErr, held, live, uses, created>>
    /\ UNCHANGED <<priceVars, calcVars, svcVars, waitVars, mainVars, repoVars, parseVars, fetchVars>>

\* Lines 74-76: the strategy runs on the call's Chrome context; its error,
\* which a done context forces, returns from the call.
RunStrategy(c) ==
    /\ callPc[c] = "strategy"
    /\ uses' = uses \cup {<<c, held[c][3]>>}
    /\ \E ok \in BOOLEAN :
          /\ sessCtxDone[c] => ~ok
          /\ IF ok
             THEN /\ callPc' = [callPc EXCEPT ![c] = "tasks"]
                  /\ UNCHANGED <<callErr, live>>
             ELSE Return(c, "strategy")
    /\ UNCHANGED <<sessCtxDone, held, created>>
    /\ UNCHANGED <<priceVars, calcVars, svcVars, waitVars, mainVars, repoVars, parseVars, fetchVars>>

\* Lines 79-94: the settle and extraction tasks run on the call's Chrome
\* context; the call returns the reader, or the extraction error.
RunTasks(c) ==
    /\ callPc[c] = "tasks"
    /\ uses' = uses \cup {<<c, held[c][3]>>}
    /\ \E ok \in BOOLEAN :
          /\ sessCtxDone[c] => ~ok
          /\ Return(c, IF ok THEN "none" ELSE "extract")
    /\ UNCHANGED <<sessCtxDone, held, created>>
    /\ UNCHANGED <<priceVars, calcVars, svcVars, waitVars, mainVars, repoVars, parseVars, fetchVars>>

NextSess ==
    \/ \E c \in Calls : UserAgentFails(c)
    \/ \E c \in Calls : OpenSession(c)
    \/ \E c \in Calls : CtxExpires(c)
    \/ \E c \in Calls : RunStrategy(c)
    \/ \E c \in Calls : RunTasks(c)

SpecSess == InitSess /\ [][NextSess]_vars

(***************************************************************************)
(* Claims about the price parser, checked under SpecPrice.                 *)
(***************************************************************************)
HasDigit(s) == \E i \in 1..Len(s) : IsDigit(s[i])

\* C7: parsePrice never fails and returns 0 on unparsable input: a text
\* without any digit (the empty text and "abc" among them) parses to exactly
\* 0, and every result is a finite value >= 0.
C7_UnparsableIsZero ==
    pricePc = "done" =>
        /\ priceOut.d > 0
        /\ priceOut.n >= 0
        /\ (~HasDigit(priceString) => priceOut = Zero)
        /\ (priceString = <<>> => priceOut = Zero)
        /\ (priceString = <<"a", "b", "c">> => priceOut = Zero)

C7_Witness ==
    /\ pricePc = "done"
    /\ priceString = <<"a", "b", "c">>
    /\ priceOut = Zero

\* The numeric substrings of s: the maximal runs of characters of [\d:,\.],
\* as pairs <<first, last>> of positions.
NumericRuns(s) ==
    {r \in (1..Len(s)) \X (1..Len(s)) :
        /\ r[1] <= r[2]
        /\ \A k \in r[1]..r[2] : InRange(s[k])
        /\ (r[1] = 1 \/ ~InRange(s[r[1] - 1]))
        /\ (r[2] = Len(s) \/ ~InRange(s[r[2] + 1]))}

\* The k-th run of a set of runs, by position.
NthRun(runs, k) ==
    CHOOSE r \in runs : Cardinality({q \in runs : q[1] < r[1]}) = k - 1

\* C8: for a text with a hyphen whose first two numeric substrings parse to
\* a > 0 and b > 0, parsePrice returns (a + b) / 2 ("20-30" gives 25); with
\* fewer than two numeric substrings, or one of them parsing to 0, it returns
\* the single-value parse of the whole text.
C8_RangeMean ==
    (pricePc = "done" /\ Contains(priceString, "-")) =>
        LET runs == NumericRuns(priceString)
            r1 == NthRun(runs, 1)
            r2 == NthRun(runs, 2)
            a == cleanAndParse(SubSeq(priceString, r1[1], r1[2]))
            b == cleanAndParse(SubSeq(priceString, r2[1], r2[2]))
        IN  /\ IF Cardinality(runs) >= 2 /\ RatGt(a, Zero) /\ RatGt(b, Zero)
               THEN priceOut.n * 2 * a.d * b.d = (a.n * b.d + b.n * a.d) * priceOut.d
               ELSE priceOut = cleanAndParse(priceString)
            /\ (priceString = <<"2", "0", "-", "3", "0">> => priceOut = Rat(25, 1))

C8_Witness ==
    /\ pricePc = "done"
    /\ priceString = <<"2", "0", "-", "3", "0">>
    /\ priceOut = Rat(25, 1)

\* C9: the magnitude fix divides by 100 exactly once, and only when the
\* parsed value is strictly greater than 1000 and the parsed text holds no
\* ':': "7990" gives 79.90, "79:90" gives 79.90, exactly 1000 stays 1000, and
\* a text with ':' is returned undivided whatever its magnitude.  Stated for
\* the texts parsePrice hands to cleanAndParse whole (those without a hyphen).
C9_MagnitudeFix ==
    (pricePc = "done" /\ priceString # <<>> /\ ~Contains(priceString, "-")) =>
        LET p == ParseFloat(CleanStr(priceString))
        IN  /\ (~p.err /\ Contains(priceString, ":")) => priceOut = p.val
            /\ (~p.err /\ ~RatGt(p.val, Rat(1000, 1))) => priceOut = p.val
            /\ (~p.err /\ RatGt(p.val, Rat(1000, 1)) /\ ~Contains(priceString, ":"))
                   => priceOut = Rat(p.val.n, p.val.d * 100)
            /\ (priceString = <<"7", "9", "9", "0">> => priceOut = Rat(7990, 100))
            /\ (priceString = <<"7", "9", ":", "9", "0">> => priceOut = Rat(7990, 100))
            /\ (priceString = <<"1", "0", "0", "0">> => priceOut = Rat(1000, 1))
            /\ (priceString = <<"1", "0", "0", "1", ":", "5">> => priceOut = Rat(10015, 10))

C9_Witness ==
    /\ pricePc = "done"
    /\ priceString = <<"7", "9", "9", "0">>
    /\ priceOut = Rat(7990, 100)

(***************************************************************************)
(* Claims about calculateDiscount, checked under SpecCalc.                 *)
(***************************************************************************)
\* The baseline and the sale total calculateDiscount is specified to compare.
Baseline(offer) ==
    IF offer.Type = "single" THEN offer.OriginalPrice
    ELSE Rat(offer.OriginalPrice.n * offer.SaleQuantity, offer.OriginalPrice.d)

SaleTotal(offer) ==
    IF offer.Type = "single" THEN offer.SalePrice ELSE offer.SalePriceTotal

\* C10: for SinglePrice and MultiBuy offers calculateDiscount returns
\* ((baseline - sale) / baseline) * 100 rounded to two decimals (a multiple of
\* 0.01 within 0.005 of the exact value), with baseline = originalPrice
\* (times saleQuantity for MultiBuy), and 0 when the baseline is 0;
\* SinglePrice{100, 75} gives 25.00 and MultiBuy{20, 3, 50} gives 16.67.
C10_DiscountFormula ==
    (calcPc = "done" /\ calcOffer.Type \in {"single", "multibuy"}) =>
        LET b == Baseline(calcOffer)
            t == SaleTotal(calcOffer)
            A == b.n * t.d - t.n * b.d
            B == b.n * t.d
            r == calcOut.n * (100 \div calcOut.d)
        IN  /\ IF b.n = 0 THEN calcOut = Zero
               ELSE /\ 100 % calcOut.d = 0
                    /\ 2 * Abs(r * B - 10000 * A) <= B
            /\ (/\ calcOffer.Type = "single"
                /\ calcOffer.OriginalPrice = Rat(100, 1)
                /\ calcOffer.SalePrice = Rat(75, 1)) => calcOut = Rat(25, 1)
            /\ (/\ calcOffer.Type = "multibuy"
                /\ calcOffer.OriginalPrice = Rat(20, 1)
                /\ calcOffer.SaleQuantity = 3
                /\ calcOffer.SalePriceTotal = Rat(50, 1)) => calcOut = Rat(1667, 100)

C10_Witness ==
    /\ calcPc = "done"
    /\ calcOffer.Type = "multibuy"
    /\ calcOffer.OriginalPrice = Rat(20, 1)
    /\ calcOffer.SaleQuantity = 3
    /\ calcOffer.SalePriceTotal = Rat(50, 1)
    /\ calcOut = Rat(1667, 100)

(***************************************************************************)
(* Claims about GetStoreOffers, checked under SpecSvc.                     *)
(***************************************************************************)
Returned == svcPc = "done" /\ svcErr = "none"

\* C2 as claimed: the deal text "2 för 30:- (20%)" is classified MultiBuy
\* (saleQuantity 2, salePriceTotal 30), never PercentageOff.
C2_MultiBuyWins ==
    Returned =>
        \A i \in 1..Len(rawDeals) :
            rawDeals[i].DealText = Deal_2for30_20pct =>
                /\ i <= Len(svcOffers)
                /\ svcOffers[i].Type = "multibuy"
                /\ svcOffers[i].SaleQuantity = 2
                /\ svcOffers[i].SalePriceTotal = Rat(30, 1)

\* C2 as amended: the deal text "2 för 30:- (20%)" is classified
\* PercentageOff with percentOffValue 20, its multi-buy fields left at zero,
\* because the percentage pattern is tried before the multi-buy pattern.
C2_PercentageWins ==
    Returned =>
        \A i \in 1..Len(rawDeals) :
            rawDeals[i].DealText = Deal_2for30_20pct =>
                /\ i <= Len(svcOffers)
                /\ svcOffers[i].Type = "percentage"
                /\ svcOffers[i].Discount = 20
                /\ svcOffers[i].SaleQuantity = 0
                /\ svcOffers[i].SalePriceTotal = Zero
                /\ svcOffers[i].DiscountPercentage = Rat(20, 1)

C2_Witness ==
    /\ Returned
    /\ Len(rawDeals) = 1
    /\ rawDeals[1].DealText = Deal_2for30_20pct
    /\ Len(multibuyMatch(rawDeals[1].DealText)) > 2
    /\ svcOffers[1].Type = "percentage"

\* C3: GetStoreOffers emits exactly one offer per raw promotion, in the same
\* order: the lists have the same length and offer i carries the name and the
\* id of raw promotion i, whatever the deal and original-price texts are.
C3_OneOfferPerPromotion ==
    Returned =>
        /\ Len(svcOffers) = Len(rawDeals)
        /\ \A i \in 1..Len(rawDeals) :
               /\ svcOffers[i].Name = rawDeals[i].Name
               /\ svcOffers[i].ProductURL.id = rawDeals[i].PromotionID
               /\ svcOffers[i].StoreName = svcStore.Name

C3_Witness ==
    /\ Returned
    /\ Len(rawDeals) = 2
    /\ rawDeals[1].Name # rawDeals[2].Name
    /\ rawDeals[1].DealText = Deal_kopnu
    /\ rawDeals[2].DealText = Deal_3for50
    /\ Len(svcOffers) = 2
    /\ svcOffers[1].Type = "unknown"
    /\ svcOffers[2].Type = "multibuy"

\* Whether none of the three pricing patterns matches the deal text.
NoPatternMatches(DealText) ==
    /\ percentageMatch(DealText) = <<>>
    /\ multibuyMatch(DealText) = <<>>
    /\ singlePriceMatch(DealText) = <<>>

C1_AllCardsVisibleOnReturn ==
    wsPc = "ok" => Cardinality(VisibleCards(dom)) >= listLength

(***************************************************************************)
(* Claims about the scraper's main, checked under SpecMain.                *)
(***************************************************************************)
\* C4: the failure of one store's pipeline does not cancel or fail a sibling:
\* a store whose scrape and insert would both succeed in isolation never
\* ends in failure, and has scraped and inserted once every task has
\* returned.
C4_SiblingsUnaffected ==
    \A s \in StoreIds :
        (scrapeOk[s] /\ insertOk[s]) =>
            /\ taskPc[s] # "failed"
            /\ (mainPc # "wait" /\ hasOffers[s]) => s \in inserted

\* C5: when more than one store pipeline fails, every failing store's error
\* is reported: the run does not report one error for the whole group and
\* discard the others.
C5_EveryFailureReported ==
    mainPc = "fatal" =>
        \A s \in StoreIds : taskPc[s] = "failed" => s \in reported

(***************************************************************************)
(* Claims about the rounding of calculateDiscount, checked under SpecCalc. *)
(***************************************************************************)
\* The offer whose raw discount is the negation of the given offer's: the
\* sale total is reflected about the baseline.
Mirror(offer) ==
    IF offer.Type = "single"
    THEN [offer EXCEPT !.SalePrice =
              RatSub(RatAdd(offer.OriginalPrice, offer.OriginalPrice), offer.SalePrice)]
    ELSE [offer EXCEPT !.SalePriceTotal =
              RatSub(RatAdd(Baseline(offer), Baseline(offer)), offer.SalePriceTotal)]

RatNeg(a) == [n |-> -a.n, d |-> a.d]

\* C11: calculateDiscount rounds the raw discount to two decimals with
\* halves away from zero and never clamps: the result is the hundredth
\* nearest to the raw discount, a tie going to the larger magnitude; it is
\* negative when the sale total exceeds the baseline; the offer with the
\* negated raw discount gets the negated result; and a raw discount of
\* -12.345 (200 against 224.69) becomes -12.35.
C11_RoundHalfAwaySymmetric ==
    (/\ calcPc = "done"
     /\ calcOffer.Type \in {"single", "multibuy"}
     /\ Baseline(calcOffer) # Zero) =>
        LET b == Baseline(calcOffer)
            t == SaleTotal(calcOffer)
            A == b.n * t.d - t.n * b.d
            B == b.n * t.d
            q == (10000 * Abs(A)) \div B
            rem == (10000 * Abs(A)) % B
            mag == IF 2 * rem >= B THEN q + 1 ELSE q
        IN  /\ calcOut = Rat((IF A < 0 THEN -mag ELSE mag), 100)
            /\ (RatGt(t, b) /\ mag > 0) => calcOut.n < 0
            /\ calculateDiscount(Mirror(calcOffer)) = RatNeg(calcOut)
            /\ (/\ calcOffer.Type = "single"
                /\ calcOffer.OriginalPrice = Rat(200, 1)
                /\ calcOffer.SalePrice = Rat(22469, 100)) => calcOut = Rat(-1235, 100)

C11_Witness ==
    /\ calcPc = "done"
    /\ calcOffer.Type = "single"
    /\ calcOffer.OriginalPrice = Rat(200, 1)
    /\ calcOffer.SalePrice = Rat(22469, 100)
    /\ calcOut = Rat(-1235, 100)

(***************************************************************************)
(* Further claims about GetStoreOffers, checked under SpecSvc.             *)
(***************************************************************************)
\* The raw card {id "p1", name "Milk", "Ord.pris 20:00", "15:-/st"}.
MilkCard ==
    [PromotionID |-> "p1", Name |-> "Milk", OriginalText |-> Orig_2000,
     DealText |-> Deal_15st]

\* C12: the raw card {p1, Milk, "Ord.pris 20:00", "15:-/st"} is normalized
\* by GetStoreOffers to an offer of type single with originalPrice 20,
\* salePrice 15 and discountPercentage 25.00, at whatever position of the
\* list it stands.
C12_MilkEndToEnd ==
    Returned =>
        \A i \in 1..Len(rawDeals) :
            rawDeals[i] = MilkCard =>
                /\ i <= Len(svcOffers)
                /\ svcOffers[i].Name = "Milk"
                /\ svcOffers[i].Type = "single"
                /\ svcOffers[i].OriginalPrice = Rat(20, 1)
                /\ svcOffers[i].SalePrice = Rat(15, 1)
                /\ svcOffers[i].DiscountPercentage = Rat(25, 1)

C12_Witness ==
    /\ Returned
    /\ Len(rawDeals) = 2
    /\ rawDeals[2] = MilkCard
    /\ rawDeals[1] # MilkCard
    /\ svcOffers[2].Type = "single"
    /\ svcOffers[2].DiscountPercentage = Rat(25, 1)

(***************************************************************************)
(* Claims about the offers table, checked under SpecRepo.                  *)
(***************************************************************************)
\* A row without its ID: the columns an offer supplies.
RowFields(r) == [f \in (DOMAIN r) \ {"ID"} |-> r[f]]

\* Whether the last InsertOffers call succeeded.
InsertSucceeded == repoPc # "idle" /\ repoErr = "none"

C14_ScrapedOffersServed ==
    (/\ repoPc = "queried"
     /\ apiErr = "none"
     /\ fromScrape
     /\ repoErr = "none") =>
        \A i \in 1..Len(offersArg) :
            \E r \in apiOut : RowFields(r) = Stored(offersArg[i])

(***************************************************************************)
(* Claims about ParseRawOffers, checked under SpecParse.                   *)
(***************************************************************************)
Extracted == extractPc = "done" /\ extractErr = "none"

\* C15: every raw promotion of one ParseRawOffers call has a promotion id
\* that is present (not empty) and unique within the render: no two records
\* of the returned list share a PromotionID, also when two cards of the
\* document carry the same data-promotion-id.
C15_PromotionIdUnique ==
    Extracted =>
        /\ \A i \in 1..Len(rawOffers) : rawOffers[i].PromotionID # <<>>
        /\ \A i, j \in 1..Len(rawOffers) :
               i # j => rawOffers[i].PromotionID # rawOffers[j].PromotionID

\* Whether an element is a card with an id attribute and a title that is
\* not empty once the white space around it is removed.
HasNonSpace(s) == \E i \in 1..Len(s) : ~IsSpace(s[i])

\* The first and the last position of a text that hold no white space.
FirstNonSpace(s) ==
    CHOOSE i \in 1..Len(s) : ~IsSpace(s[i]) /\ \A h \in 1..(i - 1) : IsSpace(s[h])

LastNonSpace(s) ==
    CHOOSE i \in 1..Len(s) : ~IsSpace(s[i]) /\ \A h \in (i + 1)..Len(s) : IsSpace(s[h])

IsPromotion(e) == e.tag = "article" /\ e.idAttr.exists /\ HasNonSpace(e.title)

\* The position in the document of the k-th promotion card.
KthPromotion(doc, k) ==
    CHOOSE i \in 1..Len(doc) :
        /\ IsPromotion(doc[i])
        /\ Cardinality({h \in 1..i : IsPromotion(doc[h])}) = k

\* C18: ParseRawOffers returns exactly the subsequence, in document order,
\* of the article cards that have a data-promotion-id and a title that is
\* not empty after trimming: record k carries the id, the trimmed title and
\* the original-price text of the k-th such card, and its deal text
\* lower-cased; the other elements contribute nothing and the call is no
\* error.
C18_SubsequenceOfCards ==
    (extractPc = "done" /\ ~readErr) =>
        /\ extractErr = "none"
        /\ Len(rawOffers) = Cardinality({i \in 1..Len(htmlDoc) : IsPromotion(htmlDoc[i])})
        /\ \A k \in 1..Len(rawOffers) :
               LET e == htmlDoc[KthPromotion(htmlDoc, k)]
               IN  /\ rawOffers[k].PromotionID = e.idAttr.val
                   /\ rawOffers[k].OriginalText = e.text
                   /\ Len(rawOffers[k].DealText) = Len(e.splash)
                   /\ \A c \in 1..Len(e.splash) :
                          rawOffers[k].DealText[c] \notin {"F", "Ö", "R", "S", "T"}
                   /\ rawOffers[k].Name =
                          SubSeq(e.title, FirstNonSpace(e.title), LastNonSpace(e.title))

C18_Witness ==
    /\ Extracted
    /\ Len(htmlDoc) = 2
    /\ htmlDoc[1].tag = "article"
    /\ ~IsPromotion(htmlDoc[1])
    /\ IsPromotion(htmlDoc[2])
    /\ htmlDoc[2].title = <<" ", "M", "\n">>
    /\ Len(rawOffers) = 1
    /\ rawOffers[1].Name = <<"M">>

(***************************************************************************)
(* Claims about FetchRenderedContent, checked under SpecFetch.             *)
(***************************************************************************)
\* The expected-item-count attribute is absent, no integer, zero or negative.
MalformedCount ==
    LET r == AtoiResult(listLengthAttr) IN r.err \/ r.val <= 0

\* C16: with the expected-item-count attribute of the first card absent, not
\* an integer, zero or negative, ICAOfferWaitStrategy ends in an error and
\* never starts its second wait; FetchRenderedContent neither settles nor
\* extracts HTML nor returns a reader; and GetStoreOffers returns an error
\* and no offers.
C16_MalformedCountFails ==
    MalformedCount =>
        /\ wsPc \notin {"waitLast", "ok"}
        /\ listLength = 0
        /\ fetchPc \notin {"settle", "extract", "done"}
        /\ fullHTML = <<>>
        /\ ~readerReturned
        /\ fetchPc = "failed" => fetchRetErr # "none"
        /\ svcPc = "done" => (svcErr = "fetch" /\ svcOffers = <<>>)

C16_Witness ==
    /\ listLengthAttr = <<"0">>
    /\ FirstCardVisible(dom)
    /\ listLengthStr = <<"0">>
    /\ wsErr = "listLength"
    /\ fetchRetErr = "strategy"
    /\ svcPc = "done"
    /\ svcErr = "fetch"
    /\ svcOffers = <<>>

\* FetchRenderedContent never waits forever: under SpecFetchFair every call
\* returns, and GetStoreOffers with it.
FetchAlwaysReturns == <>(fetchPc \in {"done", "failed"} /\ svcPc = "done")

\* C17: the render runs under one deadline and, on a page that stalls with
\* fewer than N cards visible, ends in an error and returns no HTML: HTML is
\* returned only from a page that shows at least the N cards of the count
\* read, a failed call returns no reader, and GetStoreOffers then returns
\* no offers.
C17_StalledRenderTimesOut ==
    /\ readerReturned => Cardinality(VisibleCards(fullHTML)) >= listLength
    /\ fetchPc = "failed" => (~readerReturned /\ fullHTML = <<>>)
    /\ (svcPc = "done" /\ fetchPc = "failed") => (svcErr = "fetch" /\ svcOffers = <<>>)

(***************************************************************************)
(* Claims about the original price and the order of classification,       *)
(* checked under SpecSvc.                                                  *)
(***************************************************************************)
\* Whether a text holds "Ord.pris", white space or none, and then a
\* character of a price.
HasOrdPris(s) ==
    \E i \in 1..Len(s) :
        /\ LitAt(s, i, OrdPris)
        /\ \E j \in (i + Len(OrdPris))..Len(s) :
               /\ \A h \in (i + Len(OrdPris))..(j - 1) : IsSpace(s[h])
               /\ (IsDigit(s[j]) \/ s[j] \in {":", ",", "-"})

\* C19: the original price of an offer comes from the raw promotion's
\* originalPriceText alone: "Ord.pris 25:90" gives 25.90, a text without the
\* "Ord.pris <price>" pattern gives 0 whatever the deal text is, and two
\* promotions with the same originalPriceText get the same original price
\* whatever their deal texts are.
C19_OriginalPriceFromOriginalText ==
    Returned =>
        \A i \in 1..Len(rawDeals) :
            /\ i <= Len(svcOffers)
            /\ rawDeals[i].OriginalText = Orig_2590sp =>
                   svcOffers[i].OriginalPrice = Rat(2590, 100)
            /\ ~HasOrdPris(rawDeals[i].OriginalText) =>
                   svcOffers[i].OriginalPrice = Zero
            /\ HasOrdPris(rawDeals[i].OriginalText) =>
                   svcOffers[i].OriginalPrice =
                       parsePrice(originalPriceMatch(rawDeals[i].OriginalText)[2])
            /\ \A j \in 1..Len(rawDeals) :
                   rawDeals[i].OriginalText = rawDeals[j].OriginalText =>
                       svcOffers[i].OriginalPrice = svcOffers[j].OriginalPrice

C19_Witness ==
    /\ Returned
    /\ Len(rawDeals) = 2
    /\ rawDeals[1].OriginalText = <<>>
    /\ rawDeals[1].DealText = Deal_2590kr
    /\ svcOffers[1].Type = "single"
    /\ svcOffers[1].OriginalPrice = Zero
    /\ rawDeals[2].OriginalText = Orig_2590
    /\ rawDeals[2].DealText = Deal_kopnu
    /\ svcOffers[2].OriginalPrice = Rat(2590, 100)

\* Whether a text holds a digit immediately followed by '%', and the
\* integer written before the first such '%'.
PercentAt(s) == {i \in 2..Len(s) : s[i] = "%" /\ IsDigit(s[i - 1])}

PercentValue(s) ==
    LET e == Min(PercentAt(s)) - 1
        b == CHOOSE k \in 1..e :
                 /\ \A h \in k..e : IsDigit(s[h])
                 /\ (k = 1 \/ ~IsDigit(s[k - 1]))
    IN  DigitsValue(SubSeq(s, b, e))

\* C20: classification is first-match-wins in the order PercentageOff,
\* MultiBuy, SinglePrice, Unknown: a deal text with an integer immediately
\* followed by '%' is PercentageOff with that integer, whatever else it
\* matches; MultiBuy is chosen exactly when no percentage matches and the
\* multi-buy pattern does; SinglePrice exactly when neither matches and the
\* single-price pattern does; Unknown otherwise.
C20_FirstMatchWins ==
    Returned =>
        \A i \in 1..Len(rawDeals) :
            LET t == rawDeals[i].DealText
                o == svcOffers[i]
                pct == PercentAt(t) # {}
                multi == multibuyMatch(t) # <<>>
                single == singlePriceMatch(t) # <<>>
            IN  /\ i <= Len(svcOffers)
                /\ pct => (o.Type = "percentage" /\ o.Discount = PercentValue(t))
                /\ o.Type = "percentage" <=> pct
                /\ o.Type = "multibuy" <=> (~pct /\ multi)
                /\ o.Type = "single" <=> (~pct /\ ~multi /\ single)
                /\ o.Type = "unknown" <=> (~pct /\ ~multi /\ ~single)

C20_Witness ==
    /\ Returned
    /\ Len(rawDeals) = 2
    /\ rawDeals[1].DealText = Deal_3for50
    /\ singlePriceMatch(rawDeals[1].DealText) # <<>>
    /\ svcOffers[1].Type = "multibuy"
    /\ rawDeals[2].DealText = Deal_2for30_20pct
    /\ multibuyMatch(rawDeals[2].DealText) # <<>>
    /\ svcOffers[2].Type = "percentage"
    /\ svcOffers[2].Discount = 20

\* C21: in every offer returned by GetStoreOffers only the sale fields of its
\* own scheme can be non-zero: a percentage offer has salePrice, saleQuantity
\* and salePriceTotal at zero; a multi-buy offer has salePrice and
\* percentOffValue at zero; a single-price offer has saleQuantity,
\* salePriceTotal and percentOffValue at zero; and discountPercentage equals
\* calculateDiscount of the other fields.
C21_OnlyOwnSchemeFields ==
    Returned =>
        \A i \in 1..Len(svcOffers) :
            LET o == svcOffers[i]
            IN  /\ o.Type \in {"percentage", "multibuy", "single", "unknown"}
                /\ o.Type = "percentage" =>
                       /\ o.SalePrice = Zero
                       /\ o.SaleQuantity = 0
                       /\ o.SalePriceTotal = Zero
                /\ o.Type = "multibuy" =>
                       /\ o.SalePrice = Zero
                       /\ o.Discount = 0
                /\ o.Type = "single" =>
                       /\ o.SaleQuantity = 0
                       /\ o.SalePriceTotal = Zero
                       /\ o.Discount = 0
                /\ o.DiscountPercentage =
                       calculateDiscount([o EXCEPT !.DiscountPercentage = Zero])
                /\ o.Type = "percentage" => o.DiscountPercentage = Rat(o.Discount, 1)
                /\ (o.Type \in {"single", "multibuy"} /\ Baseline(o) # Zero) =>
                       o.DiscountPercentage =
                           Round2(RatMul(RatDiv(RatSub(Baseline(o), SaleTotal(o)),
                                                Baseline(o)), Rat(100, 1)))

C21_Witness ==
    /\ Returned
    /\ Len(rawDeals) = 2
    /\ rawDeals[1].DealText = Deal_2for30_20pct
    /\ multibuyMatch(rawDeals[1].DealText) # <<>>
    /\ svcOffers[1].Type = "percentage"
    /\ svcOffers[1].SaleQuantity = 0
    /\ svcOffers[1].SalePriceTotal = Zero
    /\ rawDeals[2].DealText = Deal_15st
    /\ rawDeals[2].OriginalText = Orig_2590
    /\ svcOffers[2].Type = "single"
    /\ svcOffers[2].SalePrice = Rat(15, 1)
    /\ svcOffers[2].DiscountPercentage # Zero

(***************************************************************************)
(* Claims about the order of a render's steps, checked under SpecFetch.    *)
(***************************************************************************)
\* The steps of the strategy and of the call, each with the step after it.
StrategyOrder ==
    {<<"navigate", "waitFirst">>, <<"waitFirst", "readAttr">>,
     <<"readAttr", "waitLast">>, <<"waitLast", "ok">>}

CallOrder ==
    {<<"setup", "strategy">>, <<"strategy", "settle">>,
     <<"settle", "extract">>, <<"extract", "done">>}

\* C22: the steps of one render happen in a fixed order: navigate, wait for
\* the first card visible, read the expected count, wait for the N-th card
\* visible, settle delay, then extraction of the container HTML.  The
\* extraction is preceded by a successful return of the wait strategy and by
\* the settle delay, and is never executed when the strategy returned an
\* error.
C22_FixedStepOrder ==
    [][/\ wsPc' # wsPc =>
              /\ fetchPc = "strategy"
              /\ (<<wsPc, wsPc'>> \in StrategyOrder \/ wsPc' = "error")
       /\ fetchPc' # fetchPc =>
              (<<fetchPc, fetchPc'>> \in CallOrder \/ fetchPc' = "failed")
       /\ (fetchPc' = "settle" /\ fetchPc # "settle") => wsPc = "ok"
       /\ (fetchPc' = "extract" /\ fetchPc # "extract") => wsPc = "ok"
       /\ (fullHTML' # fullHTML \/ readerReturned' # readerReturned) =>
              /\ fetchPc = "extract"
              /\ fetchPc' = "done"
              /\ wsPc = "ok"
              /\ listLength > 0
       /\ wsPc = "error" =>
              /\ fetchPc' \notin {"settle", "extract", "done"}
              /\ fullHTML' = <<>>
              /\ ~readerReturned'
      ]_vars

C22_Witness ==
    /\ fetchPc = "done"
    /\ readerReturned
    /\ wsPc = "ok"
    /\ listLength = 2
    /\ listLengthStr = <<"2">>
    /\ NthChildVisible(fullHTML, 2)
    /\ ~deadlinePassed

(***************************************************************************)
(* Claims about the sale price of a deal text, checked under SpecSvc.      *)
(***************************************************************************)
\* C23: for a deal text classified SinglePrice, salePrice is the price
\* parser's value of the price written in the deal text, ':' and ','
\* being decimal separators: "15:-/st" gives 15, "25,90 kr" gives 25.90 and
\* "25:90/st" gives 25.90.
C23_SinglePriceAsWritten ==
    Returned =>
        \A i \in 1..Len(rawDeals) :
            LET t == rawDeals[i].DealText
                o == svcOffers[i]
            IN  /\ t = Deal_15st =>
                       (o.Type = "single" /\ o.SalePrice = Rat(15, 1))
                /\ t = Deal_2590kr =>
                       (o.Type = "single" /\ o.SalePrice = Rat(2590, 100))
                /\ t = Deal_2590st =>
                       (o.Type = "single" /\ o.SalePrice = Rat(2590, 100))

\* C24: an offer is classified Unknown if and only if its deal text holds no
\* ASCII digit: every deal text with at least one digit is classified
\* PercentageOff, MultiBuy or SinglePrice, and "max 2 per hushåll", whose
\* digit is no price, becomes SinglePrice with salePrice 2.
C24_UnknownIffNoDigit ==
    Returned =>
        \A i \in 1..Len(rawDeals) :
            LET t == rawDeals[i].DealText
                o == svcOffers[i]
            IN  /\ i <= Len(svcOffers)
                /\ o.Type = "unknown" <=> ~HasDigit(t)
                /\ HasDigit(t) => o.Type \in {"percentage", "multibuy", "single"}
                /\ t = Deal_max2 =>
                       (o.Type = "single" /\ o.SalePrice = Rat(2, 1))

C24_Witness ==
    /\ Returned
    /\ Len(rawDeals) = 2
    /\ rawDeals[1].DealText = Deal_max2
    /\ svcOffers[1].Type = "single"
    /\ svcOffers[1].SalePrice = Rat(2, 1)
    /\ rawDeals[2].DealText = Deal_kopnu
    /\ svcOffers[2].Type = "unknown"

(***************************************************************************)
(* Claims about the endpoints of a price range, checked under SpecPrice.   *)
(***************************************************************************)
\* The value of one endpoint, judged on its own substring: divided by 100
\* when it is above 1000 and the substring holds no ':'.
EndpointValue(sub) ==
    LET p == ParseFloat(CleanStr(sub))
    IN  IF p.err THEN Zero
        ELSE IF p.val.n > 1000 * p.val.d /\ \A k \in 1..Len(sub) : sub[k] # ":"
             THEN Rat(p.val.n, p.val.d * 100)
             ELSE p.val

\* C25: for a range text the magnitude fix is applied to each endpoint
\* separately before averaging, judged by that endpoint's own substring and
\* not by the whole text: parsePrice("1500-2500") = 20, the mean of 15 and
\* 25, and parsePrice("10:00-2000") = 15, the mean of 10 and 20, the second
\* endpoint being divided by 100 although the whole text holds a ':'.
C25_EndpointsFixedSeparately ==
    (pricePc = "done" /\ Contains(priceString, "-")) =>
        LET runs == NumericRuns(priceString)
            r1 == NthRun(runs, 1)
            r2 == NthRun(runs, 2)
            a == EndpointValue(SubSeq(priceString, r1[1], r1[2]))
            b == EndpointValue(SubSeq(priceString, r2[1], r2[2]))
        IN  /\ (Cardinality(runs) >= 2 /\ a.n > 0 /\ b.n > 0) =>
                   priceOut.n * 2 * a.d * b.d = (a.n * b.d + b.n * a.d) * priceOut.d
            /\ (priceString = <<"1", "5", "0", "0", "-", "2", "5", "0", "0">>
                    => priceOut = Rat(20, 1))
            /\ (priceString = <<"1", "0", ":", "0", "0", "-", "2", "0", "0", "0">>
                    => priceOut = Rat(15, 1))
            /\ (priceString = <<"2", "0", "0", "0", "-", "1", "0", ":", "0", "0">>
                    => priceOut = Rat(15, 1))

C25_Witness ==
    /\ pricePc = "done"
    /\ priceString = <<"1", "0", ":", "0", "0", "-", "2", "0", "0", "0">>
    /\ Contains(priceString, ":")
    /\ cleanAndParse(<<"2", "0", "0", "0">>) = Rat(20, 1)
    /\ priceOut = Rat(15, 1)

(***************************************************************************)
(* Claims about the browser sessions, checked under SpecSess.              *)
(***************************************************************************)
\* C26: every browser session (timed context, exec allocator, Chrome
\* context) that FetchRenderedContent opens is released by the time it
\* returns, on every return path: success, wait-strategy failure, deadline
\* expiry and extraction failure; no session stays open after the call, and
\* each concurrent call owns its own session that no other call uses.
C26_SessionsReleasedAndOwned ==
    /\ \A c \in Calls :
           callPc[c] = "returned" => Deferred(c) \cap live = {}
    /\ live \subseteq UNION {Deferred(c) : c \in {d \in Calls : callPc[d] # "returned"}}
    /\ (\A c \in Calls : callPc[c] = "returned") => live = {}
    /\ \A c \in Calls :
           (callPc[c] = "returned" /\ callErr[c] # "ua") =>
               {r.kind : r \in Deferred(c)} = {"ctx", "allocCtx", "chromeCtx"}
    /\ \A c1, c2 \in Calls :
           c1 # c2 => Deferred(c1) \cap Deferred(c2) = {}
    /\ \A u \in uses :
           /\ u[2] \in Deferred(u[1])
           /\ \A c \in Calls \ {u[1]} : u[2] \notin Deferred(c)

C26_Witness ==
    /\ \A c \in Calls : callPc[c] = "returned"
    /\ \E c1, c2 \in Calls :
           /\ c1 # c2
           /\ callErr[c1] = "none"
           /\ callErr[c2] = "strategy"
           /\ sessCtxDone[c2]
           /\ Deferred(c1) # {}
           /\ Deferred(c2) # {}
           /\ \E r1 \in Deferred(c1), r2 \in Deferred(c2) :
                  <<c1, r1>> \in uses /\ <<c2, r2>> \in uses
    /\ live = {}

(***************************************************************************)
(* Claims about the order of main's steps, checked under SpecMain.         *)
(***************************************************************************)
\* The positions of a task at which its GetStoreOffers has returned nil.
AfterScrape == {"scraped", "inserting", "ok"}

\* C27: in the scraper's main, for every interleaving of the store tasks, a
\* store's InsertOffers is called only after that store's GetStoreOffers
\* returned without error (a failed scrape inserts nothing for that store),
\* and the final count and completion summary are produced only after every
\* store task has returned and only if none of them returned an error.
C27_InsertAfterScrapeSummaryLast ==
    /\ [](\A s \in StoreIds :
             /\ (taskPc[s] \in AfterScrape \/ s \in inserted) => scrapeOk[s]
             /\ s \in inserted => taskPc[s] = "ok")
    /\ [](mainPc = "complete" =>
             /\ \A s \in StoreIds : taskPc[s] = "ok"
             /\ firstErr = 0)
    /\ [](mainPc \in {"complete", "fatal"} =>
             \A s \in StoreIds : taskPc[s] \in {"ok", "failed"})
    /\ [][\A s \in StoreIds :
             /\ (taskPc'[s] = "inserting" /\ taskPc[s] # "inserting") =>
                    taskPc[s] = "scraped"
             /\ (s \in inserted' /\ s \notin inserted) => taskPc[s] = "inserting"
             /\ (taskPc'[s] = "scraped" /\ taskPc[s] # "scraped") =>
                    (taskPc[s] = "scraping" /\ scrapeOk[s])
             /\ taskPc[s] = "failed" =>
                    (taskPc'[s] = "failed" /\ (s \in inserted' <=> s \in inserted))
             /\ mainPc \in {"complete", "fatal"} =>
                    (taskPc'[s] = taskPc[s] /\ mainPc' = mainPc)
      ]_vars

C27_Witness ==
    /\ mainPc = "complete"
    /\ inserted = StoreIds
    /\ \A s \in StoreIds : taskPc[s] = "ok" /\ scrapeOk[s] /\ hasOffers[s]
    /\ firstErr = 0

=============================================================================
